---- MODULE Spec2Model ----
(***************************************************************************)
(* Model of app.py (Enzo clinical judgment trainer, v5): the spaced        *)
(* resurfacing scheduler over the `spaced` table, the calibration bonus,   *)
(* and the stage flow of one case attempt with its end-of-case caps.       *)
(***************************************************************************)
EXTENDS Integers, Sequences, FiniteSets, TLC

VARIABLES
    session,    \* the Flask session cookie of the modelled browser session
    spaced,     \* rows of table `spaced`, in rowid order
    events,     \* rows of table `events`, in rowid order
    now,        \* the wall clock, in seconds (time.time())
    db_ok,      \* TRUE while sqlite3.connect / execute succeed
    ret,        \* the last call or request and what it returned
    runs,       \* per (session, tag): the current run of equal signals sent
                \* to the scheduler directly (history of the scheduler runs)
    form,       \* request.form of the last POST /stage
    calls       \* per session: the upsert_spaced_tag calls that have made their
                \* SELECT and not yet their INSERT or UPDATE, oldest first

vars == <<session, spaced, events, now, db_ok, ret, runs, form, calls>>

\* ------------------------------------------------------------------------
\* Bounds of the exploration
\* ------------------------------------------------------------------------
MaxCalls == 5       \* scheduler calls explored per run
MaxDays == 1        \* whole days the clock may be advanced
MaxDrift == 1       \* seconds the clock may advance inside one call

\* ------------------------------------------------------------------------
\* Program constants
\* ------------------------------------------------------------------------
DAY == 86400

INTERVALS_DAYS == <<1, 3, 7, 14, 30>>

Min(a, b) == IF a < b THEN a ELSE b

Max(a, b) == IF a > b THEN a ELSE b

\* session ids (uuid4 strings) and the review tag used by the scheduler runs
Sids == {"s1", "s2"}

SchedTags == {"ACS_ECG_10MIN"}

\* ------------------------------------------------------------------------
\* calibration_points: int() of the confidence, clamped to 0..100; a value
\* int() rejects counts as 50.  A python value is <<n>> when int() yields n
\* and <<>> when int() raises.
\* ------------------------------------------------------------------------
\* calibration_points with the two branches exchanged
calibration_points_Swapped(correct, confidence_pct) ==
    LET c == IF confidence_pct = <<>> THEN 50
             ELSE Max(0, Min(100, confidence_pct[1]))
    IN  IF correct THEN (100 - c) \div 10 ELSE c \div 10

\* calibration_points without the clamp to 0..100
calibration_points_NoClamp(correct, confidence_pct) ==
    LET c == IF confidence_pct = <<>> THEN 50 ELSE confidence_pct[1]
    IN  IF correct THEN c \div 10 ELSE (100 - c) \div 10

calibration_points(correct, confidence_pct) ==
    LET c == IF confidence_pct = <<>> THEN 50
             ELSE Max(0, Min(100, confidence_pct[1]))
    IN  IF correct THEN c \div 10 ELSE (100 - c) \div 10

\* ------------------------------------------------------------------------
\* Spaced resurfacing
\* ------------------------------------------------------------------------
\* a lookup that never finds the record
RowsOf_Nothing(tbl, sid, tag) == {}

\* the lookup by tag alone:  WHERE tag=?
RowsOf_AnySession(tbl, sid, tag) ==
    {i \in 1..Len(tbl) : tbl[i].tag = tag}

\* rows of `spaced` selected by  WHERE session_id=? AND tag=?
RowsOf(tbl, sid, tag) ==
    {i \in 1..Len(tbl) : tbl[i].session_id = sid /\ tbl[i].tag = tag}

FirstOf(S) == CHOOSE i \in S : \A j \in S : i <= j

\* a new record always starting at index 0
NewIdx_Zero(success) == 0

\* line 65: the index a new record starts at
NewIdx(success) == IF ~success THEN 0 ELSE 1

\* the index move without the floor at 0
NextIdx_NoFloor(idx, success) ==
    IF success THEN Min(idx + 1, Len(INTERVALS_DAYS) - 1) ELSE idx - 1

\* the index move with success and failure exchanged
NextIdx_Swapped(idx, success) ==
    IF success THEN Max(0, idx - 1) ELSE Min(idx + 1, Len(INTERVALS_DAYS) - 1)

\* the index move with the ceiling one interval short
NextIdx_CapShort(idx, success) ==
    IF success THEN Min(idx + 1, Len(INTERVALS_DAYS) - 2) ELSE Max(0, idx - 1)

\* the index move with a failure sending the record back to the start
NextIdx_FailReset(idx, success) ==
    IF success THEN Min(idx + 1, Len(INTERVALS_DAYS) - 1) ELSE 0

\* line 71: the index an existing record moves to
NextIdx(idx, success) ==
    IF success THEN Min(idx + 1, Len(INTERVALS_DAYS) - 1) ELSE Max(0, idx - 1)

\* INTERVALS_DAYS[idx] as Python indexes a list: a negative index counts
\* from the end, an index outside -len..len-1 raises IndexError
InSchedule(idx) == idx >= -Len(INTERVALS_DAYS) /\ idx < Len(INTERVALS_DAYS)

PyItem(idx) ==
    INTERVALS_DAYS[IF idx < 0 THEN Len(INTERVALS_DAYS) + idx + 1 ELSE idx + 1]

\* the due time counted in hours instead of days
DueAt_Hours(t, idx) == t + PyItem(idx) * 3600

\* _days_from_now(INTERVALS_DAYS[idx]) when time.time() returns t
DueAt(t, idx) == t + PyItem(idx) * DAY

\* upsert_spaced_tag(tag, success) in session sid.  ok is FALSE when the
\* store raises; that error, like an IndexError of the schedule lookup, is
\* swallowed by the except clause and nothing is committed.
\* reads = <<t1, t2, t3>> are the successive values of time.time(): t1
\* inside _days_from_now, t2 and t3 the later _now_ts() calls (the UPDATE
\* makes only one).
upsert_spaced_tag(tbl, ok, sid, tag, success, reads) ==
    LET rows == RowsOf(tbl, sid, tag)
        idx == IF rows = {} THEN NewIdx(success)
               ELSE NextIdx(tbl[FirstOf(rows)].interval_idx, success)
    IN  IF ~ok \/ ~InSchedule(idx) THEN tbl
        ELSE IF rows = {}
        THEN Append(tbl, [id |-> Len(tbl) + 1,
                          session_id |-> sid,
                          tag |-> tag,
                          interval_idx |-> idx,
                          next_due_ts |-> DueAt(reads[1], idx),
                          last_result |-> IF success THEN 1 ELSE 0,
                          created_ts |-> reads[2],
                          updated_ts |-> reads[3]])
        ELSE [tbl EXCEPT ![FirstOf(rows)] = [@ EXCEPT
                 !.interval_idx = idx,
                 !.next_due_ts = DueAt(reads[1], idx),
                 !.last_result = IF success THEN 1 ELSE 0,
                 !.updated_ts = reads[2]]]

\* the values three successive time.time() calls may return when the first
\* is made at t: the clock never runs backwards, and between two reads it
\* either stands still or jumps to MaxDrift seconds past the start of the day
ClockReads(t) ==
    LET hi == Max(t, (t \div DAY) * DAY + MaxDrift)
    IN  {r \in [1..3 -> {t, hi}] : r[1] <= r[2] /\ r[2] <= r[3]}

\* the due rows of every session:  WHERE next_due_ts<=?
DueRows_AnySession(tbl, sid, t) ==
    {i \in 1..Len(tbl) : tbl[i].next_due_ts <= t}

\* rows selected by  WHERE session_id=? AND next_due_ts<=?
DueRows(tbl, sid, t) ==
    {i \in 1..Len(tbl) : tbl[i].session_id = sid /\ tbl[i].next_due_ts <= t}

\* the tag lists of  ORDER BY next_due_ts DESC LIMIT k
RECURSIVE DuePrefixes_Desc(_, _, _)
DuePrefixes_Desc(tbl, S, k) ==
    IF k = 0 \/ S = {} THEN {<<>>}
    ELSE LET first == {i \in S : \A j \in S : tbl[i].next_due_ts >= tbl[j].next_due_ts}
         IN  UNION {{<<tbl[i].tag>> \o r : r \in DuePrefixes_Desc(tbl, S \ {i}, k - 1)} :
                    i \in first}

\* the tag lists  ORDER BY next_due_ts ASC LIMIT k  can return over rows S:
\* rows with equal next_due_ts come in an order SQL leaves open
RECURSIVE DuePrefixes(_, _, _)
DuePrefixes(tbl, S, k) ==
    IF k = 0 \/ S = {} THEN {<<>>}
    ELSE LET first == {i \in S : \A j \in S : tbl[i].next_due_ts <= tbl[j].next_due_ts}
         IN  UNION {{<<tbl[i].tag>> \o r : r \in DuePrefixes(tbl, S \ {i}, k - 1)} :
                    i \in first}

\* due_spaced_tags(limit) in session sid at clock t: the set of lists it may
\* return ([] when the store raises)
due_spaced_tags(tbl, ok, sid, t, limit) ==
    IF ~ok THEN {<<>>} ELSE DuePrefixes(tbl, DueRows(tbl, sid, t), limit)

\* the count taken over all the session's rows, due or not
queued_spaced_count_AllRows(tbl, ok, sid, t) ==
    IF ~ok THEN 0
    ELSE Cardinality({i \in 1..Len(tbl) : tbl[i].session_id = sid})

\* queued_spaced_count() in session sid at clock t (0 when the store raises)
queued_spaced_count(tbl, ok, sid, t) ==
    IF ~ok THEN 0 ELSE Cardinality(DueRows(tbl, sid, t))

\* log_event: one row appended to `events`, stamped with the clock
\* (datetime.utcnow()); nothing when the store raises
log_event(tbl, ok, ev) == IF ok THEN Append(tbl, [ev EXCEPT !.ts = now]) ELSE tbl

\* ------------------------------------------------------------------------
\* Scoring / XP policy and the cardio case
\* ------------------------------------------------------------------------
\* Python's None, as a form value or a missing dictionary entry
None == "None"

XP_POLICY ==
    [priority_correct |-> 35,
     investigations_correct |-> 20,
     nbs_correct |-> 30,
     history_rank_points |-> <<6, 4, 2>>,
     history_max |-> 12,
     history_dup_malus |-> 4,
     exam_participation |-> 6,
     ecg_interpretation_full |-> 12,
     orders_points_required_each |-> 5,
     orders_malus_contra |-> 8,
     labs_reasoning_full |-> 12,
     calibration_max_per_decision |-> 10,
     hint_costs |-> <<2, 3, 5>>,
     speed_bonus_fast |-> 5,
     speed_bonus_ok |-> 3,
     safety_wrong_cap |-> 70,
     one_wrong_cap |-> 95,
     two_wrong_cap |-> 88,
     dangerous_choice_malus |-> 15]

FLOW ==
    <<"presenting", "priority", "history_rank", "focused_exam", "ecg_read",
      "initial_orders", "labs_review", "imaging_panel", "investigations",
      "nbs", "handoff">>

Opt(id, correct, review_tag) ==
    [id |-> id, correct |-> correct, review_tag |-> review_tag]

\* a checklist item: kind is the flag the item carries ("required", "contra",
\* "correct") or "plain"; tag is the item's "tag" entry (labs_review only)
Item(id, kind, tag) == [id |-> id, kind |-> kind, tag |-> tag]

CASE_CARDIO ==
    [vitals_initial |-> [HR |-> 102, RR |-> 20],
     priority |->
        [options |-> <<Opt("A", FALSE, None), Opt("B", TRUE, "ACS_ECG_10MIN"),
                       Opt("C", FALSE, None), Opt("D", FALSE, None)>>,
         hints |-> 2,
         state_if_correct |-> [note |-> "ECG performed promptly",
                               vitals_delta |-> [HR |-> -2]],
         state_if_wrong |-> [note |-> "ECG delayed",
                             vitals_delta |-> [HR |-> 10]],
         dangerous_choices |-> {"C"}],
     history_items |-> <<"Red flags", "Character", "Risk">>,
     history_desired_order |-> <<"Red flags", "Character", "Risk">>,
     history_review_tag |-> "ACS_RED_FLAGS_FIRST",
     ecg_read |->
        [checklist |-> <<Item("rate", "required", None),
                         Item("stdep", "required", None),
                         Item("stemi", "contra", None),
                         Item("lbbb", "contra", None),
                         Item("normal", "contra", None)>>,
         review_tag_correct |-> "ECG_ISCHAEMIA_RECOGNITION"],
     initial_orders |->
        [orders |-> <<Item("asp", "required", None),
                      Item("nitr", "required", None),
                      Item("ox", "plain", None),
                      Item("cxr", "required", None),
                      Item("morph", "plain", None),
                      Item("throm", "contra", None),
                      Item("dsch", "contra", None)>>,
         review_tags |-> [required |-> "ACS_INITIAL_BUNDLE",
                          contra |-> "ACS_AVOID_UNSAFE"]],
     labs_review |->
        [options |-> <<Item("trend", "correct", "TROPONIN_SERIAL"),
                       Item("ddimer", "contra", None),
                       Item("renal", "correct", "RENAL_OK"),
                       Item("glucose", "contra", None)>>,
         points_full |-> 12],
     imaging_panel |->
        [checklist |-> <<Item("no_wide", "required", None),
                         Item("mild_ce", "plain", None),
                         Item("gross_norm", "plain", None),
                         Item("big_pnx", "contra", None)>>,
         review_tag_correct |-> "CXR_SYSTEMATIC_READ"],
     investigations |->
        [options |-> <<Opt("A", TRUE, "ACS_TROPONIN_SERIAL"),
                       Opt("B", FALSE, None), Opt("C", FALSE, None),
                       Opt("D", FALSE, None)>>,
         state_if_correct |-> [vitals_delta |-> [HR |-> -3, RR |-> -1]],
         state_if_wrong |-> [vitals_delta |-> [HR |-> 4, RR |-> 1]],
         dangerous_choices |-> {}],
     nbs |->
        [options |-> <<Opt("A", FALSE, None),
                       Opt("B", TRUE, "ACS_PATHWAY_ANTIPLATELET"),
                       Opt("C", FALSE, None), Opt("D", FALSE, None)>>,
         state_if_correct |-> [vitals_delta |-> [HR |-> -5, RR |-> -1]],
         state_if_wrong |-> [vitals_delta |-> [HR |-> 6, RR |-> 2]],
         dangerous_choices |-> {"C"}],
     handoff |->
        [items |-> <<Item("time", "required", None),
                     Item("red", "required", None),
                     Item("tx", "required", None),
                     Item("risk", "required", None),
                     Item("dsch", "contra", None)>>,
         review_tags |-> [required |-> "HANDOFF_STRUCTURE",
                          contra |-> "DISCHARGE_UNSAFE"]]]

\* number of hints each hint block is rendered with (_render_stage)
HINTS ==
    [priority |-> 2, ecg_read |-> 1, initial_orders |-> 1, labs_review |-> 1,
     investigations |-> 1, nbs |-> 1]

\* next((o["id"] for o in options if o.get("correct")), None)
CorrectId(options) ==
    LET hits == {i \in 1..Len(options) : options[i].correct}
    IN  IF hits = {} THEN None ELSE options[FirstOf(hits)].id

\* next((o.get("review_tag") for o in options if o.get("correct")), None)
CorrectTag(options) ==
    LET hits == {i \in 1..Len(options) : options[i].correct}
    IN  IF hits = {} THEN None ELSE options[FirstOf(hits)].review_tag

\* [i["id"] for i in items if i.get(kind)]
IdsOf(items, kind) == {items[i].id : i \in {j \in 1..Len(items) : items[j].kind = kind}}

\* _apply_vitals_delta: numeric entries of delta are added to the vitals
_apply_vitals_delta(vitals, delta) ==
    [k \in DOMAIN vitals |->
        IF k \in DOMAIN delta THEN vitals[k] + delta[k] ELSE vitals[k]]

\* d[key] = value on a dictionary
Put(d, key, value) ==
    [k \in DOMAIN d \cup {key} |-> IF k = key THEN value ELSE d[k]]

\* ------------------------------------------------------------------------
\* int(text) on a form value, text being a sequence of characters: an
\* optional sign followed by one or more decimal digits; <<>> when int()
\* raises ValueError
\* ------------------------------------------------------------------------
DigitVal ==
    [c \in {"0", "1", "2", "3", "4", "5", "6", "7", "8", "9"} |->
        CASE c = "0" -> 0 [] c = "1" -> 1 [] c = "2" -> 2 [] c = "3" -> 3
          [] c = "4" -> 4 [] c = "5" -> 5 [] c = "6" -> 6 [] c = "7" -> 7
          [] c = "8" -> 8 [] c = "9" -> 9]

RECURSIVE NatOf(_)
NatOf(ds) ==
    IF ds = <<>> THEN 0
    ELSE 10 * NatOf(SubSeq(ds, 1, Len(ds) - 1)) + DigitVal[ds[Len(ds)]]

PyInt(text) ==
    LET signed == text # <<>> /\ text[1] \in {"-", "+"}
        body == IF signed THEN Tail(text) ELSE text
    IN  IF body = <<>> \/ \E i \in 1..Len(body) : body[i] \notin DOMAIN DigitVal
        THEN <<>>
        ELSE <<(IF signed /\ text[1] = "-" THEN -1 ELSE 1) * NatOf(body)>>

\* int(request.form.get("confidence", 50)): field is <<>> when the form has
\* no such field and <<text>> otherwise
FormConfidence(field) == IF field = <<>> THEN <<50>> ELSE PyInt(field[1])

\* ------------------------------------------------------------------------
\* Breakdown lines: kind "xp" carries a signed XP delta n; kind "note"
\* carries the cap n it announces
\* ------------------------------------------------------------------------
XpLineOf(n, text, arg) == [kind |-> "xp", n |-> n, text |-> text, arg |-> arg]

XpLine(n, text) == XpLineOf(n, text, None)

NoteLine(n, text) == [kind |-> "note", n |-> n, text |-> text, arg |-> None]

\* state["score"] += pts; state["xp_earned"] += pts; xp_lines.append(...)
AddPts(st, pts, text) ==
    [st EXCEPT !.score = @ + pts, !.xp_earned = @ + pts,
               !.xp_lines = Append(@, XpLine(pts, text))]

Signal(tag, success) == [tag |-> tag, success |-> success]

\* ------------------------------------------------------------------------
\* Per-stage scoring (the branches of stage() on the current stage key).
\* Each yields the new case state, the upsert_spaced_tag calls it makes in
\* order, and the analytics events it logs.
\* ------------------------------------------------------------------------
Out(st, sigs, evs) == [st |-> st, sigs |-> sigs, evs |-> evs]

Event(name, correct, score) ==
    [ts |-> None, event |-> name, correct |-> correct, score |-> score]

\* the priority stage without the malus of lines 764-766
priority_stage_NoMalus(st, choice, conf) ==
    LET data == CASE_CARDIO.priority
        correct == (choice = CorrectId(data.options))
        tag == CorrectTag(data.options)
        wrong == [st EXCEPT
                    !.decisions = Put(@, "safety_cap", TRUE),
                    !.wrong_mcq_count = @ + 1,
                    !.xp_lines = Append(@, NoteLine(XP_POLICY.safety_wrong_cap,
                                                    "Safety-critical missed")),
                    !.vitals = _apply_vitals_delta(@, data.state_if_wrong.vitals_delta)]
        s1 == IF correct
              THEN [AddPts(st, XP_POLICY.priority_correct, "Correct priority") EXCEPT
                      !.vitals = _apply_vitals_delta(@, data.state_if_correct.vitals_delta)]
              ELSE wrong
        note == IF correct THEN data.state_if_correct.note ELSE data.state_if_wrong.note
        cal == calibration_points(correct, <<conf>>)
        s2 == AddPts(s1, cal, "Calibration (priority)")
        s3 == [s2 EXCEPT !.decisions =
                  Put(@, "priority", [choice |-> choice, correct |-> correct,
                                      conf |-> conf, note |-> note])]
    IN  Out(s3,
            IF tag # None THEN <<Signal(tag, correct)>> ELSE <<>>,
            <<Event("priority_decision", IF correct THEN 1 ELSE 0, s3.score)>>)

\* the priority stage without the failure signal of line 768
priority_stage_SilentWrong(st, choice, conf) ==
    LET data == CASE_CARDIO.priority
        correct == (choice = CorrectId(data.options))
        tag == CorrectTag(data.options)
        wrong == [st EXCEPT
                    !.decisions = Put(@, "safety_cap", TRUE),
                    !.wrong_mcq_count = @ + 1,
                    !.xp_lines = Append(@, NoteLine(XP_POLICY.safety_wrong_cap,
                                                    "Safety-critical missed")),
                    !.vitals = _apply_vitals_delta(@, data.state_if_wrong.vitals_delta)]
        s1 == IF correct
              THEN [AddPts(st, XP_POLICY.priority_correct, "Correct priority") EXCEPT
                      !.vitals = _apply_vitals_delta(@, data.state_if_correct.vitals_delta)]
              ELSE IF choice \in data.dangerous_choices
                   THEN AddPts(wrong, -XP_POLICY.dangerous_choice_malus, "Dangerous choice")
                   ELSE wrong
        note == IF correct THEN data.state_if_correct.note ELSE data.state_if_wrong.note
        cal == calibration_points(correct, <<conf>>)
        s2 == AddPts(s1, cal, "Calibration (priority)")
        s3 == [s2 EXCEPT !.decisions =
                  Put(@, "priority", [choice |-> choice, correct |-> correct,
                                      conf |-> conf, note |-> note])]
    IN  Out(s3,
            IF tag # None /\ correct THEN <<Signal(tag, TRUE)>> ELSE <<>>,
            <<Event("priority_decision", IF correct THEN 1 ELSE 0, s3.score)>>)

\* lines 747-773
priority_stage(st, choice, conf) ==
    LET data == CASE_CARDIO.priority
        correct == (choice = CorrectId(data.options))
        tag == CorrectTag(data.options)
        wrong == [st EXCEPT
                    !.decisions = Put(@, "safety_cap", TRUE),
                    !.wrong_mcq_count = @ + 1,
                    !.xp_lines = Append(@, NoteLine(XP_POLICY.safety_wrong_cap,
                                                    "Safety-critical missed")),
                    !.vitals = _apply_vitals_delta(@, data.state_if_wrong.vitals_delta)]
        s1 == IF correct
              THEN [AddPts(st, XP_POLICY.priority_correct, "Correct priority") EXCEPT
                      !.vitals = _apply_vitals_delta(@, data.state_if_correct.vitals_delta)]
              ELSE IF choice \in data.dangerous_choices
                   THEN AddPts(wrong, -XP_POLICY.dangerous_choice_malus, "Dangerous choice")
                   ELSE wrong
        note == IF correct THEN data.state_if_correct.note ELSE data.state_if_wrong.note
        cal == calibration_points(correct, <<conf>>)
        s2 == AddPts(s1, cal, "Calibration (priority)")
        s3 == [s2 EXCEPT !.decisions =
                  Put(@, "priority", [choice |-> choice, correct |-> correct,
                                      conf |-> conf, note |-> note])]
    IN  Out(s3,
            IF tag # None THEN <<Signal(tag, correct)>> ELSE <<>>,
            <<Event("priority_decision", IF correct THEN 1 ELSE 0, s3.score)>>)

\* the ranking stage without the clamp of line 785
history_rank_stage_NoClamp(st, r1, r2, r3) ==
    LET desired == CASE_CARDIO.history_desired_order
        rp == XP_POLICY.history_rank_points
        pts0 == (IF r1 = desired[1] THEN rp[1] ELSE 0)
                + (IF r2 = desired[2] THEN rp[2] ELSE 0)
                + (IF r3 = desired[3] THEN rp[3] ELSE 0)
        seen == SelectSeq(<<r1, r2, r3>>, LAMBDA c : c \notin {None, ""})
        dup == Cardinality({seen[i] : i \in 1..Len(seen)}) # Len(seen)
        s1 == IF dup
              THEN [st EXCEPT !.xp_lines =
                       Append(@, XpLine(-XP_POLICY.history_dup_malus,
                                        "Duplicate/missing history ranking"))]
              ELSE st
        pts1 == IF dup THEN pts0 - XP_POLICY.history_dup_malus ELSE pts0
        pts == pts1
        s2 == AddPts(s1, pts, "History prioritisation")
        s3 == [s2 EXCEPT !.decisions =
                  Put(@, "history_rank", [rank1 |-> r1, rank2 |-> r2, rank3 |-> r3])]
    IN  Out(s3, <<Signal(CASE_CARDIO.history_review_tag, r1 = desired[1])>>, <<>>)

\* lines 775-788
history_rank_stage(st, r1, r2, r3) ==
    LET desired == CASE_CARDIO.history_desired_order
        rp == XP_POLICY.history_rank_points
        pts0 == (IF r1 = desired[1] THEN rp[1] ELSE 0)
                + (IF r2 = desired[2] THEN rp[2] ELSE 0)
                + (IF r3 = desired[3] THEN rp[3] ELSE 0)
        seen == SelectSeq(<<r1, r2, r3>>, LAMBDA c : c \notin {None, ""})
        dup == Cardinality({seen[i] : i \in 1..Len(seen)}) # Len(seen)
        s1 == IF dup
              THEN [st EXCEPT !.xp_lines =
                       Append(@, XpLine(-XP_POLICY.history_dup_malus,
                                        "Duplicate/missing history ranking"))]
              ELSE st
        pts1 == IF dup THEN pts0 - XP_POLICY.history_dup_malus ELSE pts0
        pts == Max(0, Min(XP_POLICY.history_max, pts1))
        s2 == AddPts(s1, pts, "History prioritisation")
        s3 == [s2 EXCEPT !.decisions =
                  Put(@, "history_rank", [rank1 |-> r1, rank2 |-> r2, rank3 |-> r3])]
    IN  Out(s3, <<Signal(CASE_CARDIO.history_review_tag, r1 = desired[1])>>, <<>>)

\* lines 790-803
ecg_read_stage(st, ticks) ==
    LET reqs == IdsOf(CASE_CARDIO.ecg_read.checklist, "required")
        contras == IdsOf(CASE_CARDIO.ecg_read.checklist, "contra")
        got_reqs == reqs \subseteq ticks
        picked_contra == contras \cap ticks # {}
        pts == Max(0, (IF got_reqs THEN XP_POLICY.ecg_interpretation_full ELSE 0)
                      - (IF picked_contra THEN 5 ELSE 0))
        s1 == AddPts(st, pts, "ECG structured read")
        s2 == [s1 EXCEPT !.decisions = Put(@, "ecg_read", [ticks |-> ticks])]
    IN  Out(s2, <<Signal(CASE_CARDIO.ecg_read.review_tag_correct,
                         got_reqs /\ ~picked_contra)>>, <<>>)

\* the order set scored all-or-a-third: the full value with no required order
\* missing, a third of it with at least half of them ticked, else nothing
initial_orders_stage_Thirds(st, ticks) ==
    LET orders == CASE_CARDIO.initial_orders.orders
        required == IdsOf(orders, "required")
        contra == IdsOf(orders, "contra")
        unsafe == SelectSeq(orders, LAMBDA o : o.kind = "contra" /\ o.id \in ticks)
        full == XP_POLICY.orders_points_required_each * Cardinality(required)
        got == Cardinality(required \cap ticks)
        pts0 == (IF required \subseteq ticks THEN full
                 ELSE IF 2 * got >= Cardinality(required) THEN full \div 3 ELSE 0)
                - XP_POLICY.orders_malus_contra * Len(unsafe)
        s1 == [st EXCEPT !.xp_lines =
                  @ \o [i \in 1..Len(unsafe) |->
                          XpLineOf(-XP_POLICY.orders_malus_contra, "Unsafe order",
                                   unsafe[i].id)]]
        s2 == AddPts(s1, Max(0, pts0), "Initial order-set")
        s3 == [s2 EXCEPT !.decisions = Put(@, "initial_orders", [ticks |-> ticks])]
        tags == CASE_CARDIO.initial_orders.review_tags
    IN  Out(s3, <<Signal(tags.required, required \subseteq ticks),
                  Signal(tags.contra, contra \cap ticks = {})>>, <<>>)

\* lines 805-823
initial_orders_stage(st, ticks) ==
    LET orders == CASE_CARDIO.initial_orders.orders
        required == IdsOf(orders, "required")
        contra == IdsOf(orders, "contra")
        unsafe == SelectSeq(orders, LAMBDA o : o.kind = "contra" /\ o.id \in ticks)
        pts0 == XP_POLICY.orders_points_required_each * Cardinality(required \cap ticks)
                - XP_POLICY.orders_malus_contra * Len(unsafe)
        s1 == [st EXCEPT !.xp_lines =
                  @ \o [i \in 1..Len(unsafe) |->
                          XpLineOf(-XP_POLICY.orders_malus_contra, "Unsafe order",
                                   unsafe[i].id)]]
        s2 == AddPts(s1, Max(0, pts0), "Initial order-set")
        s3 == [s2 EXCEPT !.decisions = Put(@, "initial_orders", [ticks |-> ticks])]
        tags == CASE_CARDIO.initial_orders.review_tags
    IN  Out(s3, <<Signal(tags.required, required \subseteq ticks),
                  Signal(tags.contra, contra \cap ticks = {})>>, <<>>)

\* lines 825-839
labs_review_stage(st, ticks) ==
    LET opts == CASE_CARDIO.labs_review.options
        correct_ids == IdsOf(opts, "correct")
        contra_ids == IdsOf(opts, "contra")
        pts == Max(0, (IF correct_ids \subseteq ticks
                       THEN CASE_CARDIO.labs_review.points_full ELSE 0)
                      - (IF contra_ids \cap ticks # {} THEN 5 ELSE 0))
        s1 == AddPts(st, pts, "Labs reasoning")
        s2 == [s1 EXCEPT !.decisions = Put(@, "labs_review", [ticks |-> ticks])]
        tagged == SelectSeq(opts, LAMBDA o : o.tag # None)
    IN  Out(s2, [i \in 1..Len(tagged) |->
                    Signal(tagged[i].tag,
                           tagged[i].id \in ticks /\ tagged[i].kind = "correct")],
            <<>>)

\* lines 841-853
imaging_panel_stage(st, ticks) ==
    LET ip == CASE_CARDIO.imaging_panel
        req == IdsOf(ip.checklist, "required")
        contra == IdsOf(ip.checklist, "contra")
        got == req \subseteq ticks
        pts == Max(0, (IF got THEN 6 ELSE 0) - (IF contra \cap ticks # {} THEN 4 ELSE 0))
        s1 == AddPts(st, pts, "CXR panel reasoning")
        s2 == [s1 EXCEPT !.decisions = Put(@, "imaging_panel", [ticks |-> ticks])]
    IN  Out(s2, <<Signal(ip.review_tag_correct, got /\ contra \cap ticks = {})>>, <<>>)

\* lines 855-873
investigations_stage(st, choice, conf) ==
    LET inv == CASE_CARDIO.investigations
        correct == (choice = CorrectId(inv.options))
        wrong == [st EXCEPT
                    !.wrong_mcq_count = @ + 1,
                    !.vitals = _apply_vitals_delta(@, inv.state_if_wrong.vitals_delta)]
        s1 == IF correct
              THEN [AddPts(st, XP_POLICY.investigations_correct, "Correct investigation")
                      EXCEPT !.vitals =
                        _apply_vitals_delta(@, inv.state_if_correct.vitals_delta)]
              ELSE IF choice \in inv.dangerous_choices
                   THEN AddPts(wrong, -XP_POLICY.dangerous_choice_malus,
                               "Dangerous investigation")
                   ELSE wrong
        cal == calibration_points(correct, <<conf>>)
        s2 == AddPts(s1, cal, "Calibration (investigations)")
        s3 == [s2 EXCEPT !.decisions =
                  Put(@, "investigations",
                      [choice |-> choice, correct |-> correct, conf |-> conf])]
    IN  Out(s3, <<Signal("ACS_TROPONIN_SERIAL", correct)>>, <<>>)

\* lines 875-893
nbs_stage(st, choice, conf) ==
    LET nbs == CASE_CARDIO.nbs
        correct == (choice = CorrectId(nbs.options))
        wrong == [st EXCEPT
                    !.wrong_mcq_count = @ + 1,
                    !.vitals = _apply_vitals_delta(@, nbs.state_if_wrong.vitals_delta)]
        s1 == IF correct
              THEN [AddPts(st, XP_POLICY.nbs_correct, "Correct next step")
                      EXCEPT !.vitals =
                        _apply_vitals_delta(@, nbs.state_if_correct.vitals_delta)]
              ELSE IF choice \in nbs.dangerous_choices
                   THEN AddPts(wrong, -XP_POLICY.dangerous_choice_malus,
                               "Dangerous next step")
                   ELSE wrong
        cal == calibration_points(correct, <<conf>>)
        s2 == AddPts(s1, cal, "Calibration (NBS)")
        s3 == [s2 EXCEPT !.decisions =
                  Put(@, "nbs", [choice |-> choice, correct |-> correct, conf |-> conf])]
    IN  Out(s3, <<Signal("ACS_PATHWAY_ANTIPLATELET", correct)>>, <<>>)

\* the handoff stage with both signals judged on the whole selection
handoff_stage_JointSignals(st, ticks) ==
    LET items == CASE_CARDIO.handoff.items
        required == IdsOf(items, "required")
        contra == IdsOf(items, "contra")
        good == required \subseteq ticks
        bad == contra \cap ticks # {}
        pts == Max(0, (IF good THEN 6 ELSE 0) - (IF bad THEN 4 ELSE 0))
        s1 == AddPts(st, pts, "Handoff structure")
        s2 == [s1 EXCEPT !.decisions = Put(@, "handoff", [ticks |-> ticks])]
        tags == CASE_CARDIO.handoff.review_tags
    IN  Out(s2, <<Signal(tags.required, good /\ ~bad),
                  Signal(tags.contra, good /\ ~bad)>>, <<>>)

\* lines 895-909
handoff_stage(st, ticks) ==
    LET items == CASE_CARDIO.handoff.items
        required == IdsOf(items, "required")
        contra == IdsOf(items, "contra")
        good == required \subseteq ticks
        bad == contra \cap ticks # {}
        pts == Max(0, (IF good THEN 6 ELSE 0) - (IF bad THEN 4 ELSE 0))
        s1 == AddPts(st, pts, "Handoff structure")
        s2 == [s1 EXCEPT !.decisions = Put(@, "handoff", [ticks |-> ticks])]
        tags == CASE_CARDIO.handoff.review_tags
    IN  Out(s2, <<Signal(tags.required, good), Signal(tags.contra, ~bad)>>, <<>>)

\* ------------------------------------------------------------------------
\* End of the flow (lines 915-939): speed bonus, then the caps
\* ------------------------------------------------------------------------
\* lines 918-923
SpeedBonus(st, t) ==
    LET elapsed == t - st.start_ts
        sb == IF elapsed <= 8 * 60 THEN XP_POLICY.speed_bonus_fast
              ELSE IF elapsed <= 12 * 60 THEN XP_POLICY.speed_bonus_ok
              ELSE 0
    IN  IF sb # 0 THEN AddPts(st, sb, "Speed bonus") ELSE st

\* state["decisions"].get("safety_cap")
SafetyCapSet(st) ==
    "safety_cap" \in DOMAIN st.decisions /\ st.decisions["safety_cap"]

\* the cap a line announces and clamps the score to
Capped(st, cap, text) ==
    [st EXCEPT !.xp_lines = Append(@, NoteLine(cap, text)),
               !.score = Min(@, cap)]

\* the caps without the safety-critical branch
ApplyCaps_NoSafety(st) ==
    IF st.wrong_mcq_count >= 2
    THEN Capped(st, XP_POLICY.two_wrong_cap, "Score capped (two wrong MCQs)")
    ELSE IF st.wrong_mcq_count = 1
         THEN Capped(st, XP_POLICY.one_wrong_cap, "Score capped (one wrong MCQ)")
         ELSE st

\* the caps with the wrong-answer counter consulted before the safety flag
ApplyCaps_CountFirst(st) ==
    IF st.wrong_mcq_count >= 2
    THEN Capped(st, XP_POLICY.two_wrong_cap, "Score capped (two wrong MCQs)")
    ELSE IF st.wrong_mcq_count = 1
         THEN Capped(st, XP_POLICY.one_wrong_cap, "Score capped (one wrong MCQ)")
         ELSE IF SafetyCapSet(st)
              THEN Capped(st, XP_POLICY.safety_wrong_cap,
                          "Score capped (safety-critical miss)")
              ELSE st

\* lines 925-936
ApplyCaps(st) ==
    IF SafetyCapSet(st)
    THEN Capped(st, XP_POLICY.safety_wrong_cap, "Score capped (safety-critical miss)")
    ELSE IF st.wrong_mcq_count >= 2
         THEN Capped(st, XP_POLICY.two_wrong_cap, "Score capped (two wrong MCQs)")
         ELSE IF st.wrong_mcq_count = 1
              THEN Capped(st, XP_POLICY.one_wrong_cap, "Score capped (one wrong MCQ)")
              ELSE st

Finished(st) == st.stage_idx >= Len(FLOW)

\* the advance finalising one stage early: >= len(flow) - 1
Advance_OffByOne(st, t) ==
    LET s1 == [st EXCEPT !.stage_idx = @ + 1]
    IN  IF s1.stage_idx >= Len(FLOW) - 1 THEN ApplyCaps(SpeedBonus(s1, t)) ELSE s1

\* lines 911-939: advance, and finalise once the flow is finished
Advance(st, t) ==
    LET s1 == [st EXCEPT !.stage_idx = @ + 1]
    IN  IF Finished(s1) THEN ApplyCaps(SpeedBonus(s1, t)) ELSE s1

\* ------------------------------------------------------------------------
\* State after construction: a fresh browser session (ensure_session_and_gate
\* has set the defaults), an empty database, the clock at 0.
\* ------------------------------------------------------------------------
NoRet == [op |-> "none"]

NoForm == [action |-> "none"]

Init ==
    /\ session = [sid |-> "s1", xp |-> 0, streak |-> 0, last_streak_day |-> -1,
                  cases_completed_today |-> 0, case |-> <<>>, last_run |-> <<>>]
    /\ spaced = <<>>
    /\ events = <<>>
    /\ now = 0
    /\ db_ok = TRUE
    /\ ret = NoRet
    /\ runs = <<>>
    /\ form = NoForm
    /\ calls = [sid \in Sids |-> <<>>]

\* ------------------------------------------------------------------------
\* Scheduler runs: the scheduler's operations called directly, from any
\* session, with the clock advancing between and inside the calls.
\* ------------------------------------------------------------------------
SchedCalls == IF "n" \in DOMAIN ret THEN ret.n ELSE 0

\* the run of equal signals for one (session, tag) after one more signal:
\* kind is the signal, len the number of consecutive such signals, base the
\* record's index when the run began (-1 when there was no record)
RunAfter(rs, p, success, idx0) ==
    IF p \in DOMAIN rs /\ rs[p].kind = success
    THEN Put(rs, p, [rs[p] EXCEPT !.len = @ + 1])
    ELSE Put(rs, p, [kind |-> success, len |-> 1, base |-> idx0])

\* one whole call of upsert_spaced_tag(tag, success) made in session sid
RecordResult(sid, tag, success) ==
    /\ SchedCalls < MaxCalls
    /\ \E reads \in ClockReads(now) :
         LET rows == RowsOf(spaced, sid, tag)
             idx0 == IF rows = {} THEN -1 ELSE spaced[FirstOf(rows)].interval_idx
         IN  /\ spaced' = upsert_spaced_tag(spaced, db_ok, sid, tag, success, reads)
             /\ now' = reads[3]
             /\ ret' = [op |-> "upsert_spaced_tag", n |-> SchedCalls + 1,
                        sid |-> sid, tag |-> tag, success |-> success,
                        t0 |-> now, found |-> rows # {}, idx0 |-> idx0,
                        len0 |-> Len(spaced)]
             /\ runs' = IF db_ok THEN RunAfter(runs, <<sid, tag>>, success, idx0)
                        ELSE runs
    /\ UNCHANGED <<session, events, db_ok, form, calls>>

\* a day passes
Tick ==
    /\ now \div DAY < MaxDays
    /\ now' = now + DAY
    /\ ret' = [op |-> "tick", n |-> SchedCalls]
    /\ UNCHANGED <<session, spaced, events, db_ok, runs, calls, form>>

NextSched ==
    \/ \E sid \in Sids, tag \in SchedTags, success \in BOOLEAN :
         RecordResult(sid, tag, success)
    \/ Tick

SpecSched == Init /\ [][NextSched]_vars

\* ------------------------------------------------------------------------
\* Calibration runs: calibration_points called on its own, with confidences
\* from CalMargin below 0 to CalMargin above 100 and with a value int()
\* rejects.
\* ------------------------------------------------------------------------
CalMargin == 20

CalInputs == {<<>>} \cup {<<c>> : c \in (0 - CalMargin)..(100 + CalMargin)}

CalibrationCall(correct, confidence_pct) ==
    /\ ret' = [op |-> "calibration_points", correct |-> correct,
               confidence_pct |-> confidence_pct,
               result |-> calibration_points(correct, confidence_pct)]
    /\ UNCHANGED <<session, spaced, events, now, db_ok, runs, calls, form>>

NextCal ==
    \E correct \in BOOLEAN, confidence_pct \in CalInputs :
        CalibrationCall(correct, confidence_pct)

SpecCal == Init /\ [][NextCal]_vars

\* ------------------------------------------------------------------------
\* Due-list runs: records of several tags made in two sessions on different
\* days, the store going down, and the two read operations
\* called in either session.
\* ------------------------------------------------------------------------
MaxDueCalls == 3    \* upsert_spaced_tag calls explored per due-list run
MaxDueDays == 2     \* whole days the clock may be advanced in such a run

DueTags == {"ACS_ECG_10MIN", "ACS_TROPONIN_SERIAL", "ACS_PATHWAY_ANTIPLATELET"}

\* the signals sent, as <<session, tag, success>>: three tags in one
\* session, one of them also with success, and the same tag string in the
\* other session
DueSignals ==
    {<<"s1", tag, FALSE>> : tag \in DueTags}
    \cup {<<"s1", "ACS_ECG_10MIN", TRUE>>, <<"s2", "ACS_ECG_10MIN", FALSE>>}

\* the LIMIT values passed (home() and start_case() pass 4)
DueLimits == {2, 4}

\* a store error inside a scheduler operation reaching its caller, with
\* every store error propagating
Propagates_Uncaught(op, ok) == ~ok

\* whether a store error inside scheduler operation op reaches its caller:
\* the except clauses of lines 75-76, 89-90 and 98-99 catch every Exception
Propagates(op, ok) == FALSE

\* one whole call of upsert_spaced_tag(tag, success) made in session sid
DueRecord(sid, tag, success) ==
    /\ SchedCalls < MaxDueCalls
    /\ LET rows == RowsOf(spaced, sid, tag)
       IN  /\ spaced' = upsert_spaced_tag(spaced, db_ok, sid, tag, success,
                                          <<now, now, now>>)
           /\ ret' = [op |-> "upsert_spaced_tag", n |-> SchedCalls + 1,
                      sid |-> sid, tag |-> tag, success |-> success,
                      found |-> rows # {},
                      error |-> Propagates("upsert_spaced_tag", db_ok)]
    /\ UNCHANGED <<session, events, now, db_ok, runs, calls, form>>

\* one whole call of due_spaced_tags(limit) made in session sid
ListDue(sid, limit) ==
    /\ \E tags \in due_spaced_tags(spaced, db_ok, sid, now, limit) :
         ret' = [op |-> "due_spaced_tags", n |-> SchedCalls, sid |-> sid,
                 limit |-> limit, result |-> tags,
                 error |-> Propagates("due_spaced_tags", db_ok)]
    /\ UNCHANGED <<session, spaced, events, now, db_ok, runs, calls, form>>

\* one whole call of queued_spaced_count() made in session sid
CountDue(sid) ==
    /\ ret' = [op |-> "queued_spaced_count", n |-> SchedCalls, sid |-> sid,
               result |-> queued_spaced_count(spaced, db_ok, sid, now),
               error |-> Propagates("queued_spaced_count", db_ok)]
    /\ UNCHANGED <<session, spaced, events, now, db_ok, runs, calls, form>>

\* a day passes
DueTick ==
    /\ now \div DAY < MaxDueDays
    /\ now' = now + DAY
    /\ ret' = [op |-> "tick", n |-> SchedCalls]
    /\ UNCHANGED <<session, spaced, events, db_ok, runs, calls, form>>

\* the database file becomes unusable: sqlite3 raises on every statement
\* from now on
StoreDown ==
    /\ db_ok
    /\ db_ok' = FALSE
    /\ ret' = [op |-> "store_down", n |-> SchedCalls]
    /\ UNCHANGED <<session, spaced, events, now, runs, calls, form>>

NextDue ==
    \/ \E g \in DueSignals : DueRecord(g[1], g[2], g[3])
    \/ \E sid \in Sids, limit \in DueLimits : ListDue(sid, limit)
    \/ \E sid \in Sids : CountDue(sid)
    \/ DueTick
    \/ StoreDown

SpecDue == Init /\ [][NextDue]_vars

\* ------------------------------------------------------------------------
\* The routes of one browser session
\* ------------------------------------------------------------------------
MaxWaits == 3       \* six-minute pauses explored per case attempt
MaxHints == 1       \* hint requests explored per case attempt

HasCase == session.case # <<>>

State == session.case[1]

Key(st) == FLOW[st.stage_idx + 1]

\* the upsert_spaced_tag calls of one request, in order, all at clock t
RECURSIVE ApplySignals(_, _, _, _, _)
ApplySignals(tbl, ok, sid, sigs, t) ==
    IF sigs = <<>> THEN tbl
    ELSE ApplySignals(
             upsert_spaced_tag(tbl, ok, sid, sigs[1].tag, sigs[1].success, <<t, t, t>>),
             ok, sid, Tail(sigs), t)

RECURSIVE LogEvents(_, _, _)
LogEvents(tbl, ok, evs) ==
    IF evs = <<>> THEN tbl
    ELSE LogEvents(log_event(tbl, ok, evs[1]), ok, Tail(evs))

\* _hint_block raises IndexError when more hints are recorded as used than
\* the block is given (hints[i] for i in range(used))
RenderRaises(st) ==
    /\ Key(st) \in DOMAIN HINTS
    /\ st.hints_used[Key(st)] > HINTS[Key(st)]

Response(route, status) == [op |-> route, status |-> status]

\* POST /start (start_case), prefill being the tags of review_prefill
StartCase(prefill) ==
    /\ \E due \in due_spaced_tags(spaced, db_ok, session.sid, now, 4) :
         LET review_targets == IF prefill # <<>> THEN prefill ELSE due
         IN  /\ session' = [session EXCEPT !.case =
                  <<[stage_idx |-> 0, score |-> 0, xp_earned |-> 0, start_ts |-> now,
                     hints_used |-> [k \in DOMAIN HINTS |-> 0],
                     decisions |-> <<>>,
                     vitals |-> CASE_CARDIO.vitals_initial,
                     xp_lines |-> <<>>, wrong_mcq_count |-> 0,
                     review_targets |-> review_targets]>>]
             /\ events' = log_event(events, db_ok, Event("start_case", None, None))
    /\ ret' = Response("start", "redirect_stage")
    /\ UNCHANGED <<spaced, now, db_ok, runs, calls, form>>

\* the end of a POST /stage in which a failing store write aborts the request
Commit_StoreAborts(out) ==
    LET st1 == Advance(out.st, now)
    IN  IF ~db_ok
        THEN /\ ret' = Response("stage", "error")
             /\ UNCHANGED <<session, spaced, events, now, db_ok, runs, calls>>
        ELSE /\ spaced' = ApplySignals(spaced, db_ok, session.sid, out.sigs, now)
             /\ events' = LogEvents(events, db_ok, out.evs)
             /\ session' = [session EXCEPT !.case = <<st1>>]
             /\ ret' = Response("stage", IF Finished(st1) THEN "redirect_feedback"
                                         ELSE "page")
             /\ UNCHANGED <<now, db_ok, runs, calls>>

\* the end of a POST /stage that scored the current stage: the signals and
\* events go to the store, the stage index advances, and the next stage is
\* rendered or the browser is sent to the feedback page.  When rendering
\* raises, the response is an error page and the cookie is written or not
\* (Flask writes it unless the exception propagates, as under debug=True).
Commit(out) ==
    LET st1 == Advance(out.st, now)
        raises == ~Finished(st1) /\ RenderRaises(st1)
    IN  /\ spaced' = ApplySignals(spaced, db_ok, session.sid, out.sigs, now)
        /\ events' = LogEvents(events, db_ok, out.evs)
        /\ \E saved \in (IF raises THEN BOOLEAN ELSE {TRUE}) :
             session' = IF saved THEN [session EXCEPT !.case = <<st1>>] ELSE session
        /\ ret' = Response("stage", IF Finished(st1) THEN "redirect_feedback"
                                    ELSE IF raises THEN "error" ELSE "page")
        /\ UNCHANGED <<now, db_ok, runs, calls>>

\* a request that dies with an unhandled exception before changing anything
Raise(route) ==
    /\ ret' = Response(route, "error")
    /\ UNCHANGED <<session, spaced, events, now, db_ok, runs, calls>>

\* POST /stage may look up the current stage: flow[state["stage_idx"]]
Posting(key) == HasCase /\ ~Finished(State) /\ Key(State) = key

\* POST /stage, action=continue, on a stage that scores nothing
StagePassive ==
    /\ HasCase /\ ~Finished(State) /\ Key(State) \in {"presenting", "focused_exam"}
    /\ form' = [action |-> "continue"]
    /\ Commit(Out(State, <<>>, <<>>))

\* POST /stage on the three single-choice stages
StageChoice(choice, field) ==
    /\ HasCase /\ ~Finished(State)
    /\ Key(State) \in {"priority", "investigations", "nbs"}
    /\ form' = [action |-> "choice", choice |-> choice, confidence |-> field]
    /\ LET conf == FormConfidence(field)
       IN  IF conf = <<>> THEN Raise("stage")
           ELSE Commit(CASE Key(State) = "priority" ->
                            priority_stage(State, choice, conf[1])
                         [] Key(State) = "investigations" ->
                            investigations_stage(State, choice, conf[1])
                         [] Key(State) = "nbs" ->
                            nbs_stage(State, choice, conf[1]))

\* POST /stage on the ranking stage
StageHistoryRank(r1, r2, r3) ==
    /\ Posting("history_rank")
    /\ form' = [action |-> "rank", ranks |-> <<r1, r2, r3>>]
    /\ Commit(history_rank_stage(State, r1, r2, r3))

\* POST /stage on the five checklist stages
StageChecklist(ticks) ==
    /\ HasCase /\ ~Finished(State)
    /\ Key(State) \in {"ecg_read", "initial_orders", "labs_review",
                       "imaging_panel", "handoff"}
    /\ form' = [action |-> "ticks", ticks |-> ticks]
    /\ Commit(CASE Key(State) = "ecg_read" -> ecg_read_stage(State, ticks)
                [] Key(State) = "initial_orders" -> initial_orders_stage(State, ticks)
                [] Key(State) = "labs_review" -> labs_review_stage(State, ticks)
                [] Key(State) = "imaging_panel" -> imaging_panel_stage(State, ticks)
                [] Key(State) = "handoff" -> handoff_stage(State, ticks))

\* hints recorded as used, over all stages
TotalHints(st) ==
    st.hints_used["priority"] + st.hints_used["investigations"]
    + st.hints_used["nbs"] + st.hints_used["ecg_read"]
    + st.hints_used["initial_orders"] + st.hints_used["labs_review"]

\* a hint request charged as long as the counter has not passed the length
\* of the cost list
StageHint_ChargesFourth(stage_key) ==
    /\ HasCase /\ ~Finished(State)
    /\ LET st == State
           costs == XP_POLICY.hint_costs
           used == st.hints_used[stage_key]
           cost == costs[Min(used, Len(costs) - 1) + 1]
       IN  IF stage_key \in DOMAIN st.hints_used /\ used <= Len(costs)
           THEN session' = [session EXCEPT
                    !.xp = Max(0, @ - cost),
                    !.case = <<[st EXCEPT
                                  !.xp_earned = @ - cost,
                                  !.xp_lines = Append(@, XpLineOf(-cost, "Hint used",
                                                                  stage_key)),
                                  !.hints_used[stage_key] = @ + 1]>>]
           ELSE session' = session
    /\ ret' = Response("stage", "redirect_stage")
    /\ form' = [action |-> "hint", key |-> stage_key]
    /\ UNCHANGED <<spaced, events, now, db_ok, runs, calls>>

\* lines 731-744: POST /stage with action=hint_<stage_key>
StageHint(stage_key) ==
    /\ HasCase /\ ~Finished(State)
    /\ LET st == State
           costs == XP_POLICY.hint_costs
           used == st.hints_used[stage_key]
           cost == costs[Min(used, Len(costs) - 1) + 1]
       IN  IF stage_key \in DOMAIN st.hints_used /\ used < Len(costs)
           THEN session' = [session EXCEPT
                    !.xp = Max(0, @ - cost),
                    !.case = <<[st EXCEPT
                                  !.xp_earned = @ - cost,
                                  !.xp_lines = Append(@, XpLineOf(-cost, "Hint used",
                                                                  stage_key)),
                                  !.hints_used[stage_key] = @ + 1]>>]
           ELSE session' = session
    /\ ret' = Response("stage", "redirect_stage")
    /\ form' = [action |-> "hint", key |-> stage_key]
    /\ UNCHANGED <<spaced, events, now, db_ok, runs, calls>>

\* lines 727-729: POST /stage on a case whose flow is finished; the lookup
\* flow[state["stage_idx"]] raises IndexError before the form is looked at
StageAfterEnd(f) ==
    /\ HasCase /\ Finished(State)
    /\ form' = f
    /\ Raise("stage")

\* the user pauses for six minutes before reading on
Wait ==
    /\ HasCase /\ State.stage_idx = 0
    /\ now - State.start_ts < MaxWaits * 6 * 60
    /\ now' = now + 6 * 60
    /\ ret' = Response("wait", "none")
    /\ UNCHANGED <<session, spaced, events, db_ok, runs, calls, form>>

\* cal_of(dec_key) in feedback()
cal_of(st, dec_key) ==
    IF dec_key \notin DOMAIN st.decisions THEN 0
    ELSE LET d == st.decisions[dec_key]
         IN  IF dec_key \in {"priority", "investigations", "nbs"}
             THEN calibration_points(d.correct, <<d.conf>>)
             ELSE IF dec_key = "ecg_read"
             THEN LET req == IdsOf(CASE_CARDIO.ecg_read.checklist, "required")
                      contras == IdsOf(CASE_CARDIO.ecg_read.checklist, "contra")
                  IN  IF req \subseteq d.ticks /\ contras \cap d.ticks = {}
                      THEN 8 ELSE 3
             ELSE 0

\* the final score without the clamp to 0..100
FinalScore_NoClamp(st) == st.score

\* max(0, min(100, int(round(state["score"]))))
FinalScore(st) == Max(0, Min(100, st.score))

\* round(total/4.0, 1) in tenths: a tie goes to the even tenth
CalibAvgTenths(total) ==
    LET m == (5 * total) \div 2
    IN  IF (5 * total) % 2 = 0 \/ m % 2 = 0 THEN m ELSE m + 1

\* session["last_run"] as feedback() builds it at clock t
LastRun(st, t) ==
    LET calib == [priority |-> cal_of(st, "priority"),
                  ecg |-> cal_of(st, "ecg_read"),
                  investigations |-> cal_of(st, "investigations"),
                  nbs |-> cal_of(st, "nbs")]
        calib_avg == CalibAvgTenths(calib.priority + calib.ecg
                                    + calib.investigations + calib.nbs)
        total_hints == TotalHints(st)
        badges == (IF total_hints = 0 THEN <<"No Hints">> ELSE <<>>)
                  \o (IF t - st.start_ts <= 8 * 60 THEN <<"Fast Finish">> ELSE <<>>)
                  \o (IF calib_avg >= 80 THEN <<"Well-Calibrated">> ELSE <<>>)
                  \o (IF "priority" \in DOMAIN st.decisions
                         /\ st.decisions["priority"].correct
                      THEN <<"Perfect Priority">> ELSE <<>>)
    IN  [score |-> FinalScore(st), calib |-> calib, calib_avg |-> calib_avg,
         badges |-> badges, xp_lines |-> st.xp_lines, xp_case |-> st.xp_earned]

\* GET /feedback
Feedback ==
    IF ~HasCase
    THEN /\ ret' = Response("feedback", "redirect_home")
         /\ UNCHANGED <<session, spaced, events, now, db_ok, runs, calls, form>>
    ELSE /\ session' = [session EXCEPT !.last_run = <<LastRun(State, now)>>]
         /\ events' = log_event(events, db_ok,
                                Event("case_feedback", None, FinalScore(State)))
         /\ ret' = Response("feedback", "page")
         /\ UNCHANGED <<spaced, now, db_ok, runs, calls, form>>

\* the streak counted per finish, not per day
maybe_increment_streak_EveryFinish(s, today) ==
    IF s.last_streak_day # today
    THEN [s EXCEPT !.streak = @ + 1, !.last_streak_day = today,
                   !.cases_completed_today = 1]
    ELSE [s EXCEPT !.streak = @ + 1, !.cases_completed_today = @ + 1]

\* maybe_increment_streak_once_today, today being the clock's calendar day
maybe_increment_streak_once_today(s, today) ==
    IF s.last_streak_day # today
    THEN [s EXCEPT !.streak = @ + 1, !.last_streak_day = today,
                   !.cases_completed_today = 1]
    ELSE [s EXCEPT !.cases_completed_today = @ + 1]

\* POST /finish (finish_feedback)
Finish ==
    LET last == IF session.last_run = <<>> THEN [score |-> 0, xp_case |-> 0]
                ELSE session.last_run[1]
        s1 == [session EXCEPT !.xp = Max(0, @ + last.xp_case)]
        s2 == maybe_increment_streak_once_today(s1, now \div DAY)
    IN  /\ session' = [s2 EXCEPT !.case = <<>>]
        /\ events' = log_event(events, db_ok, Event("case_done", None, last.score))
        /\ ret' = Response("finish", "redirect_home")
        /\ UNCHANGED <<spaced, now, db_ok, runs, calls, form>>

\* ------------------------------------------------------------------------
\* One case attempt in a fresh session: the user starts the case once,
\* answers stage after stage, is redirected to the feedback page and
\* finishes.
\* ------------------------------------------------------------------------
\* single-choice forms: the chosen option and the confidence field
McqInputs ==
    {[choice |-> "A", confidence |-> <<<<"1", "3", "0">>>>],
     [choice |-> "B", confidence |-> <<<<"1", "3", "0">>>>],
     [choice |-> "C", confidence |-> <<<<"1", "3", "0">>>>],
     [choice |-> "B", confidence |-> <<<<"-", "5">>>>]}

HintInputs == {"priority"}

RankInputs ==
    {CASE_CARDIO.history_desired_order, <<"Risk", "Risk", "">>}

TickInputs ==
    {{"rate", "stdep", "asp", "nitr", "cxr", "trend", "renal", "no_wide",
      "time", "red", "tx", "risk"},
     {"stemi", "throm", "dsch", "ddimer", "big_pnx"}}

Next ==
    \/ (~HasCase /\ session.last_run = <<>> /\ StartCase(<<>>))
    \/ StagePassive
    \/ \E f \in McqInputs : StageChoice(f.choice, f.confidence)
    \/ \E k \in HintInputs :
         HasCase /\ ~Finished(State) /\ k = Key(State)
         /\ TotalHints(State) < MaxHints /\ StageHint(k)
    \/ \E r \in RankInputs : StageHistoryRank(r[1], r[2], r[3])
    \/ \E ticks \in TickInputs : StageChecklist(ticks)
    \/ Wait
    \/ (HasCase /\ Finished(State) /\ session.last_run = <<>> /\ Feedback)
    \/ (HasCase /\ Finished(State) /\ session.last_run # <<>> /\ Finish)

Spec == Init /\ [][Next]_vars

\* ------------------------------------------------------------------------
\* Form runs: one case attempt in which the single-choice stages are posted
\* with and without a choice and with the confidence field absent, empty,
\* non-numeric or numeric, and in which the store may go down at any point.
\* ------------------------------------------------------------------------
FormInputs ==
    {[choice |-> "B", confidence |-> <<>>],
     [choice |-> "B", confidence |-> <<<<>>>>],
     [choice |-> "B", confidence |-> <<<<"a", "b", "c">>>>],
     [choice |-> "A", confidence |-> <<<<"8", "0">>>>],
     [choice |-> "B", confidence |-> <<<<"8", "0">>>>],
     [choice |-> None, confidence |-> <<<<"8", "0">>>>],
     [choice |-> None, confidence |-> <<>>]}

FormTicks ==
    {{"rate", "stdep", "asp", "nitr", "cxr", "trend", "renal", "no_wide",
      "time", "red", "tx", "risk"}}

NextForm ==
    \/ (~HasCase /\ session.last_run = <<>> /\ StartCase(<<>>))
    \/ StagePassive
    \/ \E f \in FormInputs : StageChoice(f.choice, f.confidence)
    \/ StageHistoryRank(CASE_CARDIO.history_desired_order[1],
                        CASE_CARDIO.history_desired_order[2],
                        CASE_CARDIO.history_desired_order[3])
    \/ \E ticks \in FormTicks : StageChecklist(ticks)
    \/ (HasCase /\ StoreDown)

SpecForm == Init /\ [][NextForm]_vars

\* ------------------------------------------------------------------------
\* Stage runs: one case attempt along the flow in which every stage is posted
\* with every input of its form.  A run carries on to the next stage after
\* the answers of OnPath and ends after any other answer, so that each stage
\* meets all of its inputs once.  The user may pause before the first stage;
\* a finished attempt is posted to again, shown its feedback and closed.
\* ------------------------------------------------------------------------
\* the <select> of a rank offers a blank entry and the three history items; a
\* request without the field gives None
StageRanks == {"Red flags", "Character", "Risk", "", None}

\* the radio buttons of a single-choice stage (None: none selected) and the
\* confidence field: absent, or a number typed into it
StageChoices ==
    {[choice |-> c, confidence |-> f] :
        c \in {"A", "B", "C", "D", None},
        f \in {<<>>, <<<<"0">>>>, <<<<"3", "0">>>>, <<<<"8", "0">>>>,
               <<<<"1", "0", "0">>>>, <<<<"1", "3", "0">>>>}}

\* the checkboxes of a checklist stage
StageTicks(key) ==
    LET Ids(items) == {items[i].id : i \in DOMAIN items}
    IN  SUBSET (CASE key = "ecg_read" -> Ids(CASE_CARDIO.ecg_read.checklist)
                  [] key = "initial_orders" -> Ids(CASE_CARDIO.initial_orders.orders)
                  [] key = "labs_review" -> Ids(CASE_CARDIO.labs_review.options)
                  [] key = "imaging_panel" -> Ids(CASE_CARDIO.imaging_panel.checklist)
                  [] key = "handoff" -> Ids(CASE_CARDIO.handoff.items)
                  [] OTHER -> {})

\* the last form posted lets the run carry on
OnPath ==
    CASE form.action \in {"none", "continue"} -> TRUE
      [] form.action = "choice" ->
            form.choice \in {"A", "B"} /\ form.confidence = <<<<"8", "0">>>>
      [] form.action = "rank" -> form.ranks = CASE_CARDIO.history_desired_order
      [] form.action = "ticks" -> form.ticks \in FormTicks
      [] OTHER -> FALSE

NextStage ==
    \/ (~HasCase /\ session.last_run = <<>> /\ StartCase(<<>>))
    \/ (OnPath /\ StagePassive)
    \/ (OnPath /\ \E f \in StageChoices : StageChoice(f.choice, f.confidence))
    \/ (OnPath /\ \E r1 \in StageRanks, r2 \in StageRanks, r3 \in StageRanks :
                     StageHistoryRank(r1, r2, r3))
    \/ (OnPath /\ HasCase /\ ~Finished(State)
        /\ \E ticks \in StageTicks(Key(State)) \cup FormTicks : StageChecklist(ticks))
    \/ Wait
    \/ (\E f \in {[action |-> "continue"], [action |-> "hint", key |-> "priority"]} :
           StageAfterEnd(f))
    \/ (HasCase /\ Finished(State) /\ session.last_run = <<>> /\ Feedback)
    \/ (HasCase /\ Finished(State) /\ session.last_run # <<>> /\ Finish)

SpecStage == Init /\ [][NextStage]_vars

\* ------------------------------------------------------------------------
\* Concurrent scheduler calls: requests of two sessions are served at the
\* same time, each on its own connection, so that the SELECT of one
\* upsert_spaced_tag call and its INSERT or UPDATE (with the commit) are two
\* steps between which the other session's steps may fall.  The calls of
\* one session follow one another.
\* ------------------------------------------------------------------------
\* cur.fetchone() of the SELECT: <<>> for no row, else <<(id, interval_idx)>>
spaced_lookup(tbl, sid, tag) ==
    LET rows == RowsOf(tbl, sid, tag)
    IN  IF rows = {} THEN <<>>
        ELSE <<[id |-> tbl[FirstOf(rows)].id,
                interval_idx |-> tbl[FirstOf(rows)].interval_idx]>>

\* the rest of the call, row being what the SELECT returned: the INSERT of a
\* new row, or the UPDATE ... WHERE id=? of the row read, and the commit
spaced_write(tbl, ok, sid, tag, success, row, reads) ==
    LET idx == IF row = <<>> THEN NewIdx(success)
               ELSE NextIdx(row[1].interval_idx, success)
    IN  IF ~ok \/ ~InSchedule(idx) THEN tbl
        ELSE IF row = <<>>
        THEN Append(tbl, [id |-> Len(tbl) + 1,
                          session_id |-> sid,
                          tag |-> tag,
                          interval_idx |-> idx,
                          next_due_ts |-> DueAt(reads[1], idx),
                          last_result |-> IF success THEN 1 ELSE 0,
                          created_ts |-> reads[2],
                          updated_ts |-> reads[3]])
        ELSE [i \in 1..Len(tbl) |->
                IF tbl[i].id = row[1].id
                THEN [tbl[i] EXCEPT
                        !.interval_idx = idx,
                        !.next_due_ts = DueAt(reads[1], idx),
                        !.last_result = IF success THEN 1 ELSE 0,
                        !.updated_ts = reads[2]]
                ELSE tbl[i]]

\* a call of upsert_spaced_tag(tag, success) in session sid makes its SELECT
\* and joins the session's calls in flight; tbl0 keeps the table as it was
\* then
Begin(sid, tag, success) ==
    /\ SchedCalls < MaxCalls
    /\ calls' = [calls EXCEPT ![sid] =
                    Append(@, [tag |-> tag, success |-> success,
                               row |-> spaced_lookup(spaced, sid, tag),
                               tbl0 |-> spaced])]
    /\ ret' = [op |-> "lookup", n |-> SchedCalls + 1, sid |-> sid]
    /\ UNCHANGED <<session, spaced, events, now, db_ok, runs, form>>

\* the k-th call in flight of the session makes its INSERT or UPDATE and
\* commits
WriteOf(sid, k) ==
    /\ k \in 1..Len(calls[sid])
    /\ LET c == calls[sid][k]
       IN  /\ spaced' = spaced_write(spaced, db_ok, sid, c.tag, c.success, c.row,
                                     <<now, now, now>>)
           /\ ret' = [op |-> "write", n |-> SchedCalls, sid |-> sid, tag |-> c.tag,
                      success |-> c.success, found |-> c.row # <<>>,
                      interleaved |-> spaced # c.tbl0]
    /\ calls' = [calls EXCEPT ![sid] =
                    SubSeq(@, 1, k - 1) \o SubSeq(@, k + 1, Len(@))]
    /\ UNCHANGED <<session, events, now, db_ok, runs, form>>

\* a session whose requests follow one another: a call begins when the
\* session has none in flight
Lookup(sid, tag, success) == calls[sid] = <<>> /\ Begin(sid, tag, success)

Write(sid) == WriteOf(sid, 1)

NextConc ==
    \/ \E sid \in Sids, tag \in SchedTags, success \in BOOLEAN : Lookup(sid, tag, success)
    \/ \E sid \in Sids : Write(sid)
    \/ Tick

SpecConc == Init /\ [][NextConc]_vars

\* ------------------------------------------------------------------------
\* Racing scheduler calls: one session has up to two requests served at the
\* same time (two tabs, a double click), so that two upsert_spaced_tag calls
\* for the same session and tag may both make their SELECT before either
\* writes.
\* ------------------------------------------------------------------------
MaxInFlight == 2

NextRace ==
    \/ \E tag \in SchedTags, success \in BOOLEAN :
         Len(calls["s1"]) < MaxInFlight /\ Begin("s1", tag, success)
    \/ \E k \in 1..MaxInFlight : WriteOf("s1", k)
    \/ Tick

SpecRace == Init /\ [][NextRace]_vars

\* ------------------------------------------------------------------------
\* Session runs: one browser session over several days.  Cases are started,
\* answered stage by stage with the right answers (with hints on the
\* priority stage), looked at on the feedback page and finished; /feedback
\* and /finish are plain routes and may be requested with or without a case
\* and before the flow is finished.  Days pass between cases.
\* ------------------------------------------------------------------------
MaxAttempts == 2    \* cases started per run
MaxFinishes == 3    \* /finish requests per run

\* events of the given name in the analytics log
Logged(name) == Cardinality({i \in 1..Len(events) : events[i].event = name})

\* the right answer of the stage at hand
RightAnswer ==
    \/ StagePassive
    \/ \E c \in {"A", "B"} :
         /\ HasCase /\ ~Finished(State)
         /\ Key(State) \in {"priority", "investigations", "nbs"}
         /\ c = CorrectId(CASE_CARDIO[Key(State)].options)
         /\ StageChoice(c, <<<<"8", "0">>>>)
    \/ StageHistoryRank(CASE_CARDIO.history_desired_order[1],
                        CASE_CARDIO.history_desired_order[2],
                        CASE_CARDIO.history_desired_order[3])
    \/ \E ticks \in FormTicks : StageChecklist(ticks)

\* the user leaves the stage pages for /feedback or /finish with no case, at
\* the end of the flow, or early, right after the priority stage
AtExit == HasCase => (Finished(State) \/ State.stage_idx = 2)

NextSession ==
    \/ (~HasCase /\ Logged("start_case") < MaxAttempts /\ StartCase(<<>>))
    \/ RightAnswer
    \/ (HasCase /\ ~Finished(State) /\ Key(State) = "priority"
        /\ TotalHints(State) < MaxHints /\ StageHint("priority"))
    \/ (HasCase /\ AtExit /\ session.last_run # <<LastRun(State, now)>> /\ Feedback)
    \/ (AtExit /\ Logged("case_done") < MaxFinishes /\ Finish)
    \/ (~HasCase /\ Tick)

SpecSession == Init /\ [][NextSession]_vars

\* ------------------------------------------------------------------------
\* Streak runs: cases answered rightly to the end, their feedback viewed,
\* and /finish requested with or without a finished case, over several
\* days.
\* ------------------------------------------------------------------------
NextStreak ==
    \/ (~HasCase /\ Logged("start_case") < MaxAttempts /\ StartCase(<<>>))
    \/ RightAnswer
    \/ (HasCase /\ Finished(State) /\ session.last_run # <<LastRun(State, now)>>
        /\ Feedback)
    \/ ((HasCase => Finished(State) /\ session.last_run = <<LastRun(State, now)>>)
        /\ Logged("case_done") < MaxFinishes /\ Finish)
    \/ (~HasCase /\ Tick)

SpecStreak == Init /\ [][NextStreak]_vars

\* ------------------------------------------------------------------------
\* Properties
\* ------------------------------------------------------------------------
LastRunSet == session.last_run # <<>>

Decided(st, key) == key \in DOMAIN st.decisions

\* XP charged for the hints recorded as used (costs 2, 3, 5 per stage)
RECURSIVE CostOf(_)
CostOf(used) == IF used = 0 THEN 0 ELSE XP_POLICY.hint_costs[used] + CostOf(used - 1)

HintCost(st) ==
    CostOf(st.hints_used["priority"]) + CostOf(st.hints_used["investigations"])
    + CostOf(st.hints_used["nbs"]) + CostOf(st.hints_used["ecg_read"])
    + CostOf(st.hints_used["initial_orders"]) + CostOf(st.hints_used["labs_review"])

\* the points the stages and the speed bonus added to the score, before any
\* cap: the attempt's earned XP with the hint charges put back
Uncapped(st) == st.xp_earned + HintCost(st)

\* the caps announced in the breakdown, in order
CapLines(st) ==
    SelectSeq(st.xp_lines,
              LAMBDA l : l.text \in {"Score capped (safety-critical miss)",
                                     "Score capped (two wrong MCQs)",
                                     "Score capped (one wrong MCQ)"})

\* C1: once a case attempt has run through its whole flow, the score the
\* feedback step shows and stores in last_run is an integer from 0 to 100,
\* whatever was submitted, however many hints were taken and however long
\* the attempt took.
C1_FinalScoreBounded ==
    LastRunSet => session.last_run[1].score \in 0..100

\* C1 witness: feedback has been shown for a finished attempt whose raw
\* score is above 100.
C1_Witness ==
    /\ LastRunSet /\ HasCase /\ Finished(State)
    /\ State.score > 100
    /\ session.last_run[1].score = 100

\* C2: when the priority stage was answered incorrectly, the finished
\* attempt's score, and the final score feedback stores for it, is at most
\* 70, whatever the other stages and the speed bonus added.
C2_SafetyCap ==
    (HasCase /\ Finished(State) /\ Decided(State, "priority")
       /\ ~State.decisions["priority"].correct)
    => /\ State.score <= XP_POLICY.safety_wrong_cap
       /\ (LastRunSet => session.last_run[1].score <= XP_POLICY.safety_wrong_cap)

\* C2 witness: priority answered incorrectly, more than 70 points collected
\* at the other stages, and the final score is 70.
C2_Witness ==
    /\ HasCase /\ Finished(State) /\ LastRunSet
    /\ ~State.decisions["priority"].correct
    /\ Uncapped(State) > 70
    /\ session.last_run[1].score = 70

\* the one cap the claimed priority order selects: <<>> when none applies
ClaimedCap(st) ==
    IF SafetyCapSet(st) THEN <<70>>
    ELSE IF st.wrong_mcq_count >= 2 THEN <<88>>
    ELSE IF st.wrong_mcq_count = 1 THEN <<95>>
    ELSE <<>>

\* C3: no cap is applied before the flow is finished; at finalization exactly
\* one cap is applied, chosen in the order 70 (safety flag), 88 (two or more
\* wrong single-choice answers), 95 (one wrong), none.  So priority correct
\* with both other single-choice stages wrong is clamped to 88, and priority
\* wrong is clamped to 70 and to nothing else.
C3_OneCapInOrder ==
    HasCase =>
      LET st == State
          caps == CapLines(st)
      IN  IF ~Finished(st) THEN caps = <<>>
          ELSE /\ [i \in 1..Len(caps) |-> caps[i].n] = ClaimedCap(st)
               /\ st.score = IF ClaimedCap(st) = <<>> THEN Uncapped(st)
                             ELSE Min(Uncapped(st), ClaimedCap(st)[1])
               /\ (st.decisions["priority"].correct
                   /\ ~st.decisions["investigations"].correct
                   /\ ~st.decisions["nbs"].correct)
                  => st.score = Min(Uncapped(st), 88)
               /\ ~st.decisions["priority"].correct
                  => st.score = Min(Uncapped(st), 70)

\* C3 witness: priority correct, investigations and next-best-step wrong,
\* more than 88 points collected, score clamped to 88.
C3_Witness ==
    /\ HasCase /\ Finished(State)
    /\ State.decisions["priority"].correct
    /\ ~State.decisions["investigations"].correct
    /\ ~State.decisions["nbs"].correct
    /\ Uncapped(State) > 88
    /\ State.score = 88

\* C4: for every integer c from 0 to 100, calibration_points(true, c) is
\* floor(c/10) and calibration_points(false, c) is floor((100-c)/10), that
\* is the r with 10r <= x < 10(r+1), and the result is between 0 and 10.
C4_CalibrationFormula ==
    (ret.op = "calibration_points" /\ ret.confidence_pct # <<>>
       /\ ret.confidence_pct[1] \in 0..100)
    => LET c == ret.confidence_pct[1]
           x == IF ret.correct THEN c ELSE 100 - c
       IN  /\ 10 * ret.result <= x
           /\ x < 10 * (ret.result + 1)
           /\ ret.result \in 0..10

\* C4 witness: calibration_points(false, 30) returned 7.
C4_Witness ==
    /\ ret.op = "calibration_points"
    /\ ~ret.correct /\ ret.confidence_pct = <<30>>
    /\ ret.result = 7

Clamp100(c) == IF c < 0 THEN 0 ELSE IF c > 100 THEN 100 ELSE c

\* the calibration line a single-choice stage wrote into the breakdown
CalibrationLine(st, key) ==
    LET text == CASE key = "priority" -> "Calibration (priority)"
                  [] key = "investigations" -> "Calibration (investigations)"
                  [] key = "nbs" -> "Calibration (NBS)"
    IN  SelectSeq(st.xp_lines, LAMBDA l : l.text = text)

\* position of a stage in the flow, counted from 0
FlowIndex(key) == (CHOOSE i \in 1..Len(FLOW) : FLOW[i] = key) - 1

\* C5: a single-choice submission whose confidence is below 0 or above 100
\* is accepted: the stage is scored, the flow moves past it, and the
\* calibration bonus added is the bonus of the confidence clamped into
\* 0..100, hence between 0 and 10.
C5_ConfidenceClamped ==
    HasCase =>
      \A key \in {"priority", "investigations", "nbs"} :
        (Decided(State, key) /\ State.decisions[key].conf \notin 0..100)
        => LET d == State.decisions[key]
               c == Clamp100(d.conf)
               x == IF d.correct THEN c ELSE 100 - c
               lines == CalibrationLine(State, key)
           IN  /\ State.stage_idx > FlowIndex(key)
               /\ Len(lines) = 1
               /\ 10 * lines[1].n <= x /\ x < 10 * (lines[1].n + 1)
               /\ lines[1].n \in 0..10

\* C5 witness: the priority stage was submitted with confidence 130 and the
\* next-best-step stage with confidence -5, and the flow has moved on.
C5_Witness ==
    /\ HasCase /\ Finished(State)
    /\ State.decisions["priority"].conf = 130
    /\ State.decisions["nbs"].conf = -5

TouchedRows == RowsOf(spaced, ret.sid, ret.tag)

\* C6: upsert_spaced_tag on a (session, tag) without a record adds exactly
\* one row, the only one of that pair, at index 0 for a failure and at
\* index 1 for a success, with last_result the signal.
C6_CreateRecord ==
    (ret.op = "upsert_spaced_tag" /\ ~ret.found /\ db_ok)
    => /\ Len(spaced) = ret.len0 + 1
       /\ Cardinality(TouchedRows) = 1
       /\ \A i \in TouchedRows :
            /\ i = Len(spaced)
            /\ spaced[i].interval_idx = IF ret.success THEN 1 ELSE 0
            /\ spaced[i].last_result = IF ret.success THEN 1 ELSE 0

\* C6 witness: a second session's first signal for the tag, a success,
\* created that session's record while the first session already had one.
C6_Witness ==
    /\ ret.op = "upsert_spaced_tag" /\ ~ret.found /\ ret.success
    /\ ret.len0 = 1 /\ Len(spaced) = 2
    /\ spaced[2].session_id = ret.sid /\ spaced[2].interval_idx = 1

\* C7: upsert_spaced_tag on a (session, tag) whose record is at index i
\* moves it to min(i+1, 4) on success and to max(i-1, 0) on failure,
\* overwrites last_result and updated_ts, and adds no row.
C7_UpdateRecord ==
    (ret.op = "upsert_spaced_tag" /\ ret.found /\ db_ok)
    => /\ Len(spaced) = ret.len0
       /\ \A i \in TouchedRows :
            /\ spaced[i].interval_idx =
                 IF ret.success
                 THEN (IF ret.idx0 + 1 < 4 THEN ret.idx0 + 1 ELSE 4)
                 ELSE (IF ret.idx0 - 1 > 0 THEN ret.idx0 - 1 ELSE 0)
            /\ spaced[i].last_result = IF ret.success THEN 1 ELSE 0
            /\ spaced[i].updated_ts >= ret.t0
            /\ spaced[i].updated_ts <= now

\* C7 witness: a success on a record already at index 4 left it at 4.
C7_Witness ==
    /\ ret.op = "upsert_spaced_tag" /\ ret.found /\ ret.success
    /\ ret.idx0 = 4
    /\ \E i \in TouchedRows : spaced[i].interval_idx = 4

\* C8: every stored record's interval index is a position of the schedule
\* [1, 3, 7, 14, 30]: 0 <= idx < 5.
C8_IndexInSchedule ==
    \A i \in 1..Len(spaced) :
        spaced[i].interval_idx >= 0 /\ spaced[i].interval_idx < 5

\* C8 witness: a failure on a record at index 0 left it at 0 while another
\* session's record stands at a higher index.
C8_Witness ==
    /\ ret.op = "upsert_spaced_tag" /\ ret.found /\ ~ret.success
    /\ ret.idx0 = 0
    /\ \E i \in TouchedRows : spaced[i].interval_idx = 0
    /\ \E j \in 1..Len(spaced) : spaced[j].interval_idx = 3

\* C9 as claimed: in every reachable state every record's next_due_ts is
\* its updated_ts plus schedule[idx] days.
C9_DueFromUpdatedTs ==
    \A i \in 1..Len(spaced) :
        spaced[i].next_due_ts
          = spaced[i].updated_ts + INTERVALS_DAYS[spaced[i].interval_idx + 1] * 86400

\* C9 amended: after every upsert_spaced_tag call the touched record's
\* next_due_ts is a clock reading taken during that call plus schedule[idx]
\* days, and that reading is not later than the stored updated_ts; so for
\* every record next_due_ts <= updated_ts + schedule[idx] days, and the two
\* differ by no more than the clock advanced during the call.
C9_DueFromCallTime ==
    /\ \A i \in 1..Len(spaced) :
         spaced[i].next_due_ts
           <= spaced[i].updated_ts + INTERVALS_DAYS[spaced[i].interval_idx + 1] * 86400
    /\ (ret.op = "upsert_spaced_tag" /\ db_ok)
       => \A i \in TouchedRows :
            LET read == spaced[i].next_due_ts
                        - INTERVALS_DAYS[spaced[i].interval_idx + 1] * 86400
            IN  /\ ret.t0 <= read
                /\ read <= spaced[i].updated_ts
                /\ spaced[i].updated_ts <= now

\* C9 witness: a call during which the clock advanced left a record whose
\* next_due_ts is earlier than updated_ts plus schedule[idx] days.
C9_Witness ==
    /\ ret.op = "upsert_spaced_tag" /\ ret.t0 < now
    /\ \E i \in TouchedRows :
         spaced[i].next_due_ts
           < spaced[i].updated_ts + INTERVALS_DAYS[spaced[i].interval_idx + 1] * 86400

\* C10: for a (session, tag) that had no record, after N >= 1 consecutive
\* successes the record is at index min(N, 4), and it is never above 4.
C10_SuccessRun ==
    \A p \in DOMAIN runs :
        (runs[p].kind /\ runs[p].base = -1)
        => \A i \in RowsOf(spaced, p[1], p[2]) :
             /\ spaced[i].interval_idx = IF runs[p].len < 4 THEN runs[p].len ELSE 4
             /\ spaced[i].interval_idx <= 4

\* C10 witness: five consecutive successes from no record, index 4.
C10_Witness ==
    \E p \in DOMAIN runs :
        /\ runs[p].kind /\ runs[p].base = -1 /\ runs[p].len = 5
        /\ \E i \in RowsOf(spaced, p[1], p[2]) : spaced[i].interval_idx = 4

\* C11: for a (session, tag) whose record was at index i, after N >= 1
\* consecutive failures the record is at index max(i - N, 0), and it is
\* never below 0.
C11_FailureRun ==
    \A p \in DOMAIN runs :
        (~runs[p].kind /\ runs[p].base >= 0)
        => \A i \in RowsOf(spaced, p[1], p[2]) :
             /\ spaced[i].interval_idx
                  = IF runs[p].base - runs[p].len > 0
                    THEN runs[p].base - runs[p].len ELSE 0
             /\ spaced[i].interval_idx >= 0

\* C11 witness: three consecutive failures on a record that was at index 2
\* leave it at index 0, the third one held there by the floor.
C11_Witness ==
    \E p \in DOMAIN runs :
        /\ ~runs[p].kind /\ runs[p].base = 2 /\ runs[p].len = 3
        /\ \E i \in RowsOf(spaced, p[1], p[2]) : spaced[i].interval_idx = 0

\* rows of session sid that are due at the current clock
DueNow(sid) ==
    {i \in 1..Len(spaced) :
        spaced[i].session_id = sid /\ spaced[i].next_due_ts <= now}

\* r lists the tags of the k earliest-due rows of S in ascending due order
IsEarliest(r, S, k) ==
    /\ Len(r) = IF k < Cardinality(S) THEN k ELSE Cardinality(S)
    /\ \E f \in [1..Len(r) -> S] :
         /\ \A a, b \in 1..Len(r) : a # b => f[a] # f[b]
         /\ \A a \in 1..Len(r) : spaced[f[a]].tag = r[a]
         /\ \A a, b \in 1..Len(r) :
              a < b => spaced[f[a]].next_due_ts <= spaced[f[b]].next_due_ts
         /\ \A i \in S \ {f[a] : a \in 1..Len(r)} :
              \A a \in 1..Len(r) : spaced[f[a]].next_due_ts <= spaced[i].next_due_ts

\* C12: with the store working, due_spaced_tags(limit) returns the tags of
\* the session's records with next_due_ts <= now, in ascending order of
\* next_due_ts, cut to the first `limit`; no tag of a record that is due
\* only in the future is returned.
C12_ListDue ==
    (ret.op = "due_spaced_tags" /\ db_ok)
    => /\ IsEarliest(ret.result, DueNow(ret.sid), ret.limit)
       /\ \A i \in 1..Len(spaced) :
            (spaced[i].session_id = ret.sid /\ spaced[i].next_due_ts > now)
            => \A a \in 1..Len(ret.result) : ret.result[a] # spaced[i].tag

\* C12 witness: the session has two records due at different times and one
\* not yet due; the call returned the two due tags, the earlier one first.
C12_Witness ==
    /\ ret.op = "due_spaced_tags" /\ db_ok /\ ret.limit = 4
    /\ \E i, j, k \in 1..Len(spaced) :
         /\ spaced[i].session_id = ret.sid
         /\ spaced[j].session_id = ret.sid
         /\ spaced[k].session_id = ret.sid
         /\ spaced[i].next_due_ts < spaced[j].next_due_ts
         /\ spaced[j].next_due_ts <= now
         /\ now < spaced[k].next_due_ts
         /\ ret.result = <<spaced[i].tag, spaced[j].tag>>

\* C13: with the store working, queued_spaced_count() returns the number of
\* the session's records with next_due_ts <= now; and at any instant, for
\* either session and any limit, every list due_spaced_tags(limit) can
\* return has min(limit, queued_spaced_count()) entries.
C13_CountDue ==
    /\ (ret.op = "queued_spaced_count" /\ db_ok)
       => ret.result = Cardinality(DueNow(ret.sid))
    /\ \A sid \in Sids, limit \in DueLimits :
         \A tags \in due_spaced_tags(spaced, db_ok, sid, now, limit) :
            LET n == queued_spaced_count(spaced, db_ok, sid, now)
            IN  Len(tags) = IF limit < n THEN limit ELSE n

\* C13 witness: a count of 3 returned in a session with three due records,
\* where a list of limit 2 is cut short of the count.
C13_Witness ==
    /\ ret.op = "queued_spaced_count" /\ db_ok /\ ret.result = 3
    /\ Cardinality(DueNow(ret.sid)) = 3
    /\ \E tags \in due_spaced_tags(spaced, db_ok, ret.sid, now, 2) : Len(tags) = 2

\* the session has no record in the store
NoRecords(sid) == \A i \in 1..Len(spaced) : spaced[i].session_id # sid

\* C14: in a session that has no records, whatever records other sessions
\* have, due_spaced_tags returns the empty list and queued_spaced_count
\* returns 0, and neither raises.
C14_NothingRecorded ==
    /\ (ret.op = "due_spaced_tags" /\ NoRecords(ret.sid))
       => (ret.result = <<>> /\ ~ret.error)
    /\ (ret.op = "queued_spaced_count" /\ NoRecords(ret.sid))
       => (ret.result = 0 /\ ~ret.error)

\* C14 witness: the list was asked for, with the store working, in a session
\* without records while the other session has a record that is due.
C14_Witness ==
    /\ ret.op = "due_spaced_tags" /\ db_ok /\ NoRecords(ret.sid)
    /\ ret.result = <<>>
    /\ \E i \in 1..Len(spaced) : spaced[i].next_due_ts <= now

\* C15: while the store is unavailable, due_spaced_tags returns the empty
\* list, queued_spaced_count returns 0 and upsert_spaced_tag returns
\* normally; none of the three passes an error to its caller.
C15_StoreUnavailable ==
    ~db_ok
    => /\ ret.op = "due_spaced_tags" => (ret.result = <<>> /\ ~ret.error)
       /\ ret.op = "queued_spaced_count" => (ret.result = 0 /\ ~ret.error)
       /\ ret.op = "upsert_spaced_tag" => ~ret.error

\* C15 witness: the list was asked for while the store was unavailable, in
\* a session with a due record, and came back empty.
C15_Witness ==
    /\ ~db_ok /\ ret.op = "due_spaced_tags"
    /\ ret.result = <<>> /\ ~ret.error
    /\ DueNow(ret.sid) # {}

\* the store with the records of every session but sid removed
OwnRecords(sid) == SelectSeq(spaced, LAMBDA r : r.session_id = sid)

\* what a read returned is what it returns when the store holds the
\* caller's records only
ReadsOwnOnly ==
    /\ ret.op = "due_spaced_tags"
       => ret.result \in due_spaced_tags(OwnRecords(ret.sid), db_ok, ret.sid,
                                         now, ret.limit)
    /\ ret.op = "queued_spaced_count"
       => ret.result = queued_spaced_count(OwnRecords(ret.sid), db_ok, ret.sid, now)

\* a call of upsert_spaced_tag leaves every record of the other sessions in
\* place and unchanged, and a record it adds belongs to the caller
WritesOwnOnly ==
    ret'.op = "upsert_spaced_tag"
    => /\ Len(spaced') >= Len(spaced)
       /\ \A i \in 1..Len(spaced) :
            spaced[i].session_id # ret'.sid => spaced'[i] = spaced[i]
       /\ \A i \in (Len(spaced) + 1)..Len(spaced') :
            spaced'[i].session_id = ret'.sid

\* C17: a call of upsert_spaced_tag in one session never creates, changes
\* or removes a record of another session, even under the same tag, and
\* due_spaced_tags / queued_spaced_count never return or count the records
\* of another session.
C17_SessionIsolation == []ReadsOwnOnly /\ [][WritesOwnOnly]_vars

\* C17 witness: the second session signalled a tag the first session
\* already tracks; each session has its own record of that tag.
C17_Witness ==
    /\ ret.op = "upsert_spaced_tag" /\ ret.sid = "s2" /\ db_ok
    /\ \E i, j \in 1..Len(spaced) :
         /\ spaced[i].session_id = "s1" /\ spaced[j].session_id = "s2"
         /\ spaced[i].tag = ret.tag /\ spaced[j].tag = ret.tag
         /\ i < j

\* C18: after any sequence of upsert_spaced_tag calls made one at a time the
\* store holds at most one record per (session, tag); a call for a pair that
\* is already tracked leaves the number of records unchanged.
C18_OneRecordPerPair ==
    /\ \A i, j \in 1..Len(spaced) :
         (spaced[i].session_id = spaced[j].session_id /\ spaced[i].tag = spaced[j].tag)
         => i = j
    /\ (ret.op = "upsert_spaced_tag" /\ ret.found) => Len(spaced) = ret.len0

\* C18 witness: a third call for the same pair found its record and the
\* store still holds a single record for the pair.
C18_Witness ==
    /\ ret.op = "upsert_spaced_tag" /\ ret.found /\ ret.n >= 3
    /\ \E p \in DOMAIN runs : p = <<ret.sid, ret.tag>> /\ runs[p].len >= 3
    /\ Cardinality({i \in 1..Len(spaced) :
                      spaced[i].session_id = ret.sid /\ spaced[i].tag = ret.tag}) = 1

\* the scoring of the posted form f on the current stage of case state st
StageOut(st, f) ==
    CASE f.action = "continue" -> Out(st, <<>>, <<>>)
      [] f.action = "rank" -> history_rank_stage(st, f.ranks[1], f.ranks[2], f.ranks[3])
      [] f.action = "choice" /\ Key(st) = "priority" ->
           priority_stage(st, f.choice, FormConfidence(f.confidence)[1])
      [] f.action = "choice" /\ Key(st) = "investigations" ->
           investigations_stage(st, f.choice, FormConfidence(f.confidence)[1])
      [] f.action = "choice" /\ Key(st) = "nbs" ->
           nbs_stage(st, f.choice, FormConfidence(f.confidence)[1])
      [] f.action = "ticks" /\ Key(st) = "ecg_read" -> ecg_read_stage(st, f.ticks)
      [] f.action = "ticks" /\ Key(st) = "initial_orders" ->
           initial_orders_stage(st, f.ticks)
      [] f.action = "ticks" /\ Key(st) = "labs_review" -> labs_review_stage(st, f.ticks)
      [] f.action = "ticks" /\ Key(st) = "imaging_panel" ->
           imaging_panel_stage(st, f.ticks)
      [] f.action = "ticks" /\ Key(st) = "handoff" -> handoff_stage(st, f.ticks)

\* the posted form gets past int() of its confidence field
Parses(f) == f.action # "choice" \/ FormConfidence(f.confidence) # <<>>

\* a stage submission made while the store is down ends as the same
\* submission does with the store working: the case state after it is the
\* scored and advanced one, and nothing reaches the store
SubmissionSurvives ==
    (~db_ok /\ ret'.op = "stage" /\ HasCase /\ ~Finished(State) /\ Parses(form'))
    => /\ ret'.status # "error"
       /\ session'.case = <<Advance(StageOut(State, form').st, now)>>
       /\ session'.case[1].stage_idx = State.stage_idx + 1
       /\ spaced' = spaced
       /\ events' = events

\* C16: when the scheduler and analytics writes of a stage submission fail,
\* the submission still completes, and its score delta, wrong-answer
\* counter, safety flag, breakdown lines and stage-index advance are those
\* of the same submission with a working store.
C16_ScoringSurvivesStoreFailure == [][SubmissionSurvives]_vars

\* C16 witness: with the store down a wrong priority answer was scored: the
\* stage advanced, the wrong answer and the safety flag are recorded, and
\* no review record and no event but the earlier start_case was written.
C16_Witness ==
    /\ ~db_ok /\ ret.op = "stage" /\ ret.status = "page"
    /\ form.action = "choice" /\ form.choice = "A"
    /\ HasCase /\ State.stage_idx = 2
    /\ State.wrong_mcq_count = 1
    /\ "safety_cap" \in DOMAIN State.decisions
    /\ Len(State.xp_lines) >= 2
    /\ spaced = <<>>
    /\ \A i \in 1..Len(events) : events[i].event = "start_case"

\* a single-choice submission without a choice leaves the case state and
\* the review records as they were and shows the same stage again
NoChoiceLeavesCase ==
    (ret'.op = "stage" /\ form'.action = "choice" /\ form'.choice = None)
    => /\ session'.case = session.case
       /\ spaced' = spaced
       /\ ret'.status = "page"

\* C19: a single-choice stage submission with no option chosen is rejected
\* before scoring: score, wrong-answer counter, safety flag, decisions,
\* breakdown and stage index are unchanged, no scheduler signal is sent and
\* the same stage is presented again.
C19_NoChoiceRejected == [][NoChoiceLeavesCase]_vars

\* C19 witness: the priority stage was posted without a choice and was
\* scored as a wrong answer: the stage advanced, the decision is recorded
\* with no choice, the wrong-answer counter and the safety flag are set and
\* a failure was signalled for the stage's review tag.
C19_Witness ==
    /\ ret.op = "stage" /\ form.action = "choice" /\ form.choice = None
    /\ HasCase /\ State.stage_idx = 2
    /\ "priority" \in DOMAIN State.decisions
    /\ State.decisions["priority"].choice = None
    /\ ~State.decisions["priority"].correct
    /\ State.wrong_mcq_count = 1
    /\ "safety_cap" \in DOMAIN State.decisions
    /\ \E i \in 1..Len(spaced) :
         spaced[i].tag = "ACS_ECG_10MIN" /\ spaced[i].last_result = 0

\* C20: every stage submission, whatever its form inputs (an absent, empty
\* or non-numeric confidence included), is processed without an unhandled
\* error reaching the user.
C20_NoUnhandledError == ret.op = "stage" => ret.status # "error"

\* C20 witness: a single-choice submission with a non-numeric confidence
\* ended in an error response and left the case on the same stage,
\* unscored.
C20_Witness ==
    /\ ret.op = "stage" /\ ret.status = "error"
    /\ form.action = "choice" /\ form.choice = "B"
    /\ form.confidence = <<<<"a", "b", "c">>>>
    /\ HasCase /\ Key(State) = "priority" /\ State.decisions = <<>>

\* ------------------------------------------------------------------------
\* Stage scoring (C21..C29)
\* ------------------------------------------------------------------------
\* a POST /stage that has just scored a form of the given kind
Scored(action) == ret'.op = "stage" /\ ret'.status # "error" /\ form'.action = action

\* the points the request added to the score
ScoreDelta == State'.score - State.score

\* a rank left blank (the blank entry of the <select>, or no field at all)
BlankRank(r) == r \in {"", None}

\* the positional points of a ranking: 6, 4, 2 for the first, second and
\* third rank holding the desired item
Positional(ranks) ==
    LET desired == CASE_CARDIO.history_desired_order
        rp == XP_POLICY.history_rank_points
    IN  (IF ranks[1] = desired[1] THEN rp[1] ELSE 0)
        + (IF ranks[2] = desired[2] THEN rp[2] ELSE 0)
        + (IF ranks[3] = desired[3] THEN rp[3] ELSE 0)

\* the ranking holds the same item twice
DuplicatedRank(ranks) ==
    \E i \in 1..3, j \in 1..3 : i < j /\ ~BlankRank(ranks[i]) /\ ranks[i] = ranks[j]

PenaltyOnDuplicateOrBlank ==
    Scored("rank") =>
        LET ranks == form'.ranks
            penalised == DuplicatedRank(ranks) \/ \E i \in 1..3 : BlankRank(ranks[i])
        IN  ScoreDelta =
                Max(0, Min(XP_POLICY.history_max,
                           Positional(ranks)
                           - (IF penalised THEN XP_POLICY.history_dup_malus ELSE 0)))

\* C21: on the ranking stage the fixed penalty (4) is subtracted from the
\* positional points whenever the three ranks hold a duplicated item or a
\* blank rank, and is not subtracted when the ranks are distinct and all
\* filled in.
C21_PenaltyOnDuplicateOrBlank == [][PenaltyOnDuplicateOrBlank]_vars

\* C21 witness: a ranking with the first two ranks right and the third left
\* blank was scored 10 (6 + 4) with no penalty line.
C21_Witness ==
    /\ ret.op = "stage" /\ form.action = "rank"
    /\ form.ranks = <<"Red flags", "Character", "">>
    /\ HasCase /\ Key(State) = "focused_exam"
    /\ State.xp_lines[Len(State.xp_lines)] = XpLine(10, "History prioritisation")
    /\ \A i \in 1..Len(State.xp_lines) :
         State.xp_lines[i].text # "Duplicate/missing history ranking"

RankPointsInRange ==
    Scored("rank") =>
        /\ ScoreDelta \in 0..XP_POLICY.history_max
        /\ State'.xp_earned - State.xp_earned = ScoreDelta

\* C22: for every ranking submission the points the ranking stage adds lie
\* between 0 and history_max (12), also when the penalty makes the value
\* before the clamp negative.
C22_RankPointsInRange == [][RankPointsInRange]_vars

\* C22 witness: a ranking with no rank right and an item repeated (0 - 4
\* before the clamp) was scored 0.
C22_Witness ==
    /\ ret.op = "stage" /\ form.action = "rank"
    /\ Positional(form.ranks) = 0 /\ DuplicatedRank(form.ranks)
    /\ HasCase /\ Key(State) = "focused_exam"
    /\ LET n == Len(State.xp_lines)
       IN  /\ State.xp_lines[n] = XpLine(0, "History prioritisation")
           /\ State.xp_lines[n - 1] =
                  XpLine(-XP_POLICY.history_dup_malus, "Duplicate/missing history ranking")

\* a checklist submission on the given stage has just been scored
ScoredTicks(key) == Scored("ticks") /\ Key(State) = key

RequiredOrders == IdsOf(CASE_CARDIO.initial_orders.orders, "required")

ContraOrders == IdsOf(CASE_CARDIO.initial_orders.orders, "contra")

\* the full value of the order set: every required order ticked
OrdersFull == XP_POLICY.orders_points_required_each * Cardinality(RequiredOrders)

TwoOfThreeIsAThird ==
    (/\ ScoredTicks("initial_orders")
     /\ Cardinality(RequiredOrders \cap form'.ticks) = 2
     /\ ContraOrders \cap form'.ticks = {})
    => ScoreDelta = OrdersFull \div 3

\* C23 as stated: an order set with exactly two of the three required orders
\* and no contraindicated order is awarded a third of the full value (5 of
\* 15).
C23_TwoOfThreeIsAThird == [][TwoOfThreeIsAThird]_vars

SafeOrdersScoredPerItem ==
    (ScoredTicks("initial_orders") /\ ContraOrders \cap form'.ticks = {})
    => ScoreDelta = XP_POLICY.orders_points_required_each
                        * Cardinality(RequiredOrders \cap form'.ticks)

\* C23 (amended): an order set with no contraindicated order is awarded 5
\* points for each required order ticked, so exactly two of the three
\* required orders give 10 of 15, two thirds of the full value.
C23_SafeOrdersScoredPerItem == [][SafeOrdersScoredPerItem]_vars

\* C23 witness: aspirin and nitrate were ticked, the chest film was not, no
\* unsafe order was ticked, and the stage added 10 points.
C23_Witness ==
    /\ ret.op = "stage" /\ form.action = "ticks"
    /\ form.ticks = {"asp", "nitr"}
    /\ HasCase /\ Key(State) = "labs_review"
    /\ State.xp_lines[Len(State.xp_lines)] = XpLine(10, "Initial order-set")

\* the fixed points of a single-choice stage
ChoicePoints(key) ==
    CASE key = "priority" -> XP_POLICY.priority_correct
      [] key = "investigations" -> XP_POLICY.investigations_correct
      [] key = "nbs" -> XP_POLICY.nbs_correct

\* the score change the rule gives for a choice made with confidence c
ChoiceDelta(key, choice, c) ==
    LET data == CASE_CARDIO[key]
        correct == choice = CorrectId(data.options)
    IN  (IF correct THEN ChoicePoints(key) ELSE 0)
        - (IF ~correct /\ choice \in data.dangerous_choices
           THEN XP_POLICY.dangerous_choice_malus ELSE 0)
        + calibration_points(correct, <<c>>)

SafetyFlag(st) == "safety_cap" \in DOMAIN st.decisions

ChoiceScoredByRule ==
    (Scored("choice") /\ form'.choice # None) =>
        LET key == Key(State)
            choice == form'.choice
            c == FormConfidence(form'.confidence)[1]
        IN  /\ ScoreDelta = ChoiceDelta(key, choice, c)
            /\ (key = "priority" /\ choice = "B" /\ c = 80)
                   => ScoreDelta = 35 + 8 /\ ~SafetyFlag(State')
            /\ (key = "priority" /\ choice = "C" /\ c = 30)
                   => ScoreDelta = 0 - 15 + 7 /\ SafetyFlag(State')

\* C24: on each single-choice stage (priority, investigations, nbs), for
\* every option chosen and every confidence c, the score changes by exactly
\* the stage's fixed points if the choice is correct, minus 15 if it is wrong
\* and among the dangerous choices, plus calibration(correct, c): the right
\* priority at c = 80 gives 35 + 8 and sets no safety flag, priority option C
\* at c = 30 gives 0 - 15 + 7 and sets the safety flag.
C24_ChoiceScoredByRule == [][ChoiceScoredByRule]_vars

\* C24 witness: the dangerous priority option C was posted with confidence
\* 30; the score went from 0 to -8 and the safety flag is set.
C24_Witness ==
    /\ ret.op = "stage" /\ form.action = "choice"
    /\ form.choice = "C" /\ form.confidence = <<<<"3", "0">>>>
    /\ HasCase /\ Key(State) = "history_rank"
    /\ State.score = -8 /\ SafetyFlag(State)

\* the lines of the breakdown that carry the given text
LinesOf(st, text) == SelectSeq(st.xp_lines, LAMBDA l : l.text = text)

\* the texts of the point lines, one per scoring stage
StageTexts ==
    {"Correct priority", "Calibration (priority)", "History prioritisation",
     "ECG structured read", "Initial order-set", "Labs reasoning",
     "CXR panel reasoning", "Correct investigation", "Calibration (investigations)",
     "Correct next step", "Calibration (NBS)", "Handoff structure"}

\* a POST /stage that is not a hint request, on a case in progress: it scores
\* the stage at the current index and moves the index on by one; the index
\* never goes back, and no stage's points line is in the breakdown twice
SubmissionScoresCurrentStage ==
    /\ (ret'.op = "stage" /\ form'.action \notin {"hint", "none"}
          /\ HasCase /\ ~Finished(State))
       => /\ ret'.status # "error"
          /\ session'.case # <<>>
          /\ State'.stage_idx = State.stage_idx + 1
          /\ session'.case = <<Advance(StageOut(State, form').st, now)>>
    /\ (HasCase /\ session'.case # <<>>)
       => /\ State'.stage_idx >= State.stage_idx
          /\ \A text \in StageTexts : Len(LinesOf(State', text)) <= 1

\* C25: each stage is scored at most once: every submission that is not a
\* hint request scores the stage at the current index and advances the index
\* by exactly one, the index never decreases, and no sequence of submissions
\* adds the points of one stage twice.
C25_StageScoredOnce == [][SubmissionScoresCurrentStage]_vars

\* C25 witness: the priority form was posted with an empty confidence field;
\* the request ended in an error, the index is still 1 and nothing is scored.
C25_Witness ==
    /\ ret.op = "stage" /\ ret.status = "error"
    /\ form.action = "choice" /\ form.confidence = <<<<>>>>
    /\ HasCase /\ State.stage_idx = 1
    /\ State.score = 0 /\ State.xp_lines = <<>>

\* the tag the signal of a single-choice submission is keyed by: the chosen
\* option's review tag, or the correct option's when the chosen has none
SignalTag(key, choice) ==
    LET opts == CASE_CARDIO[key].options
        chosen == {i \in DOMAIN opts : opts[i].id = choice /\ opts[i].review_tag # None}
    IN  IF chosen # {} THEN opts[CHOOSE i \in chosen : TRUE].review_tag
        ELSE CorrectTag(opts)

ChoiceSendsOneSignal ==
    Scored("choice") =>
        LET key == Key(State)
            correct == form'.choice = CorrectId(CASE_CARDIO[key].options)
        IN  /\ spaced' = upsert_spaced_tag(spaced, db_ok, session.sid,
                                           SignalTag(key, form'.choice), correct,
                                           <<now, now, now>>)
            /\ correct => SignalTag(key, form'.choice) = CorrectTag(CASE_CARDIO[key].options)
            /\ Len(spaced') = Len(spaced) + 1
            /\ spaced'[Len(spaced')].last_result = IF correct THEN 1 ELSE 0

ChecklistItems(key) ==
    CASE key = "ecg_read" -> CASE_CARDIO.ecg_read.checklist
      [] key = "initial_orders" -> CASE_CARDIO.initial_orders.orders
      [] key = "labs_review" -> CASE_CARDIO.labs_review.options
      [] key = "imaging_panel" -> CASE_CARDIO.imaging_panel.checklist
      [] key = "handoff" -> CASE_CARDIO.handoff.items

\* the items that must be selected (on labs_review: the correct statements)
\* and those that must not
MustSelect(key) ==
    IdsOf(ChecklistItems(key), "required") \cup IdsOf(ChecklistItems(key), "correct")

MustNotSelect(key) == IdsOf(ChecklistItems(key), "contra")

NoneMissing(key, ticks) == MustSelect(key) \subseteq ticks

NoneUnsafe(key, ticks) == MustNotSelect(key) \cap ticks = {}

\* the review records a request wrote, the table holding none for the
\* request's tags before
NewRecords == (Len(spaced) + 1)..Len(spaced')

Succeeded(i) == spaced'[i].last_result = 1

ChecklistSignalsJoint ==
    (Scored("ticks") /\ Len(spaced') > Len(spaced)) =>
        \A i \in NewRecords :
            Succeeded(i) <=> (NoneMissing(Key(State), form'.ticks)
                              /\ NoneUnsafe(Key(State), form'.ticks))

\* C27 as stated: on every checklist stage (ecg_read, initial_orders,
\* labs_review, imaging_panel, handoff) and for every selection, each
\* scheduler signal the stage sends is a success if and only if no required
\* item is missing and no contraindicated item was selected.
C27_ChecklistSignalsJoint == [][ChecklistSignalsJoint]_vars

ChecklistSignalsPerTag ==
    Scored("ticks") =>
        LET key == Key(State)
            ticks == form'.ticks
            n == Len(spaced)
        IN  CASE key \in {"ecg_read", "imaging_panel"} ->
                   /\ Len(spaced') = n + 1
                   /\ spaced'[n + 1].tag = CASE_CARDIO[key].review_tag_correct
                   /\ Succeeded(n + 1) <=> (NoneMissing(key, ticks) /\ NoneUnsafe(key, ticks))
              [] key \in {"initial_orders", "handoff"} ->
                   /\ Len(spaced') = n + 2
                   /\ spaced'[n + 1].tag = CASE_CARDIO[key].review_tags.required
                   /\ Succeeded(n + 1) <=> NoneMissing(key, ticks)
                   /\ spaced'[n + 2].tag = CASE_CARDIO[key].review_tags.contra
                   /\ Succeeded(n + 2) <=> NoneUnsafe(key, ticks)
              [] key = "labs_review" ->
                   /\ {spaced'[i].tag : i \in NewRecords} = {"TROPONIN_SERIAL", "RENAL_OK"}
                   /\ Len(spaced') = n + 2
                   /\ \A i \in NewRecords :
                        /\ spaced'[i].tag = "TROPONIN_SERIAL"
                              => (Succeeded(i) <=> "trend" \in ticks)
                        /\ spaced'[i].tag = "RENAL_OK"
                              => (Succeeded(i) <=> "renal" \in ticks)

\* C27 (amended): on ecg_read and imaging_panel the one signal sent is a
\* success if and only if no required item is missing and no contraindicated
\* item was selected.  initial_orders and handoff send two signals: the one
\* for the stage's "required" tag is a success if and only if no required
\* item is missing, the one for its "contra" tag if and only if no
\* contraindicated item was selected.  labs_review sends one signal for each
\* tagged statement, a success if and only if that statement was selected.
C27_ChecklistSignalsPerTag == [][ChecklistSignalsPerTag]_vars

\* C27 witness: the handoff was posted with every required item and the
\* unsafe discharge; the record for the structure tag is a success and the
\* record for the unsafe-discharge tag a failure.
C27_Witness ==
    /\ ret.op = "stage" /\ form.action = "ticks"
    /\ form.ticks = {"time", "red", "tx", "risk", "dsch"}
    /\ HasCase /\ Finished(State)
    /\ \E i \in 1..Len(spaced), j \in 1..Len(spaced) :
         /\ spaced[i].tag = "HANDOFF_STRUCTURE" /\ spaced[i].last_result = 1
         /\ spaced[j].tag = "DISCHARGE_UNSAFE" /\ spaced[j].last_result = 0

BonusLines(st) == LinesOf(st, "Speed bonus")

\* the bonus for the time the attempt took
BonusFor(elapsed) ==
    IF elapsed <= 8 * 60 THEN XP_POLICY.speed_bonus_fast
    ELSE IF elapsed <= 12 * 60 THEN XP_POLICY.speed_bonus_ok
    ELSE 0

\* no bonus and no cap while the flow is unfinished; on the step that
\* finishes it the bonus is added and then the one cap applied, each once;
\* after that no request changes the case state but /finish, which drops it
FinalizedOnce ==
    /\ (session'.case # <<>> /\ ~Finished(State'))
       => BonusLines(State') = <<>> /\ CapLines(State') = <<>>
    /\ (HasCase /\ ~Finished(State) /\ session'.case # <<>> /\ Finished(State'))
       => /\ ret'.op = "stage" /\ form'.action # "hint"
          /\ State.stage_idx = Len(FLOW) - 1
          /\ LET s == StageOut(State, form').st
                 fin == State'
                 sb == BonusFor(now - State.start_ts)
                 caps == CapLines(fin)
             IN  /\ Len(BonusLines(fin)) = IF sb = 0 THEN 0 ELSE 1
                 /\ sb # 0 => BonusLines(fin)[1].n = sb
                 /\ fin.xp_earned = s.xp_earned + sb
                 /\ [i \in 1..Len(caps) |-> caps[i].n] = ClaimedCap(s)
                 /\ fin.score = IF caps = <<>> THEN s.score + sb
                                ELSE Min(s.score + sb, caps[1].n)
    /\ (HasCase /\ Finished(State))
       => \/ session'.case = session.case
          \/ session'.case = <<>> /\ ret'.op = "finish"

\* C28: the end-of-case finalization (the speed bonus, then the cap) is
\* applied exactly once per attempt, on the submission that moves the stage
\* index to the end of the flow: never before it, and no later request
\* applies the bonus or a cap again.
C28_FinalizedOnce == [][FinalizedOnce]_vars

\* C28 witness: a finished attempt that took more than eight minutes was
\* posted to again: the request failed, and the breakdown still holds one
\* bonus line (3) and one cap line, the score standing at the cap.
C28_Witness ==
    /\ ret.op = "stage" /\ ret.status = "error"
    /\ HasCase /\ Finished(State)
    /\ Len(BonusLines(State)) = 1 /\ BonusLines(State)[1].n = 3
    /\ Len(CapLines(State)) = 1
    /\ State.score = CapLines(State)[1].n

\* the sum of the signed point deltas of the breakdown lines (the notes, such
\* as the cap lines, carry no delta)
RECURSIVE SumDeltas(_)
SumDeltas(lines) ==
    IF lines = <<>> THEN 0
    ELSE (IF lines[1].kind = "xp" THEN lines[1].n ELSE 0) + SumDeltas(Tail(lines))

\* C29: the breakdown is a faithful account of the points: at every point of
\* a case attempt the signed point deltas of the breakdown lines sum to the
\* net points earned so far (xp_earned), whatever was posted at the stages
\* and whichever hints were requested.
C29_BreakdownSumsToEarned ==
    HasCase => SumDeltas(State.xp_lines) = State.xp_earned

\* C29 witness: after a hint and a ranking with a repeated item the lines
\* hold the hint's cost and the ranking's penalty, and they sum to 4 less
\* than the points earned.
C29_Witness ==
    /\ ret.op = "stage" /\ form.action = "rank" /\ DuplicatedRank(form.ranks)
    /\ HasCase /\ TotalHints(State) = 1
    /\ LinesOf(State, "Duplicate/missing history ranking") # <<>>
    /\ SumDeltas(State.xp_lines) = State.xp_earned - XP_POLICY.history_dup_malus

\* ------------------------------------------------------------------------
\* Concurrent scheduler calls (C30)
\* ------------------------------------------------------------------------
\* the INSERT or UPDATE of a call leaves the table as the whole call, run at
\* that moment with no other call in between, would: the calls take effect
\* one after another in the order of their writes.  It changes no row of
\* another session, and no session has two rows for a tag.
WriteIsSerial ==
    \A sid \in Sids :
        (ret'.op = "write" /\ ret'.sid = sid /\ calls[sid] # <<>>) =>
            LET c == calls[sid][1]
            IN  /\ spaced' = upsert_spaced_tag(spaced, db_ok, sid, c.tag, c.success,
                                               <<now, now, now>>)
                /\ \A i \in 1..Len(spaced) :
                      spaced[i].session_id # sid => spaced'[i] = spaced[i]
                /\ \A i \in 1..Len(spaced'), j \in 1..Len(spaced') :
                      (spaced'[i].session_id = spaced'[j].session_id
                       /\ spaced'[i].tag = spaced'[j].tag) => i = j
                /\ \E i \in 1..Len(spaced') :
                      /\ spaced'[i].session_id = sid /\ spaced'[i].tag = c.tag
                      /\ spaced'[i].last_result = IF c.success THEN 1 ELSE 0

\* C30: when recordResult calls of different sessions run concurrently, with
\* their lookup and insert/update steps interleaved in any order, the stored
\* records are the same as if the calls had run one after another: no
\* session's record is lost, duplicated or altered by another session's
\* call.
C30_ConcurrentSessionsSerial == [][WriteIsSerial]_vars

\* C30 witness: a call updated its session's record after another session
\* had written between its lookup and its write; both sessions have their
\* one record, and no call is in flight.
C30_Witness ==
    /\ ret.op = "write" /\ ret.found /\ ret.interleaved
    /\ \A sid \in Sids : calls[sid] = <<>>
    /\ Len(spaced) = 2
    /\ spaced[1].session_id # spaced[2].session_id
    /\ spaced[1].interval_idx = 2 /\ spaced[2].interval_idx = 1

\* ------------------------------------------------------------------------
\* Racing scheduler calls (C31)
\* ------------------------------------------------------------------------
\* the rows of the table for a (session, tag) pair
PairRows(tbl, sid, tag) ==
    {i \in 1..Len(tbl) : tbl[i].session_id = sid /\ tbl[i].tag = tag}

\* a write leaves exactly one row for its pair, and that row's index is the
\* step of the schedule from the index the pair had when the write was made:
\* the signal is applied on top of every signal written before it
WriteKeepsOneRecord ==
    (ret'.op = "write") =>
        LET sid == ret'.sid
            tag == ret'.tag
            before == PairRows(spaced, sid, tag)
            after == PairRows(spaced', sid, tag)
        IN  /\ Cardinality(after) = 1
            /\ \A i \in after :
                  spaced'[i].interval_idx =
                      IF before = {} THEN NewIdx(ret'.success)
                      ELSE NextIdx(spaced[FirstOf(before)].interval_idx, ret'.success)

\* C31: when two recordResult calls for the same (session, tag) run
\* concurrently, with their lookup and insert/update steps interleaved, the
\* store still ends with exactly one record for the pair and its interval
\* index reflects both signals: no duplicate record and no lost update.
C31_RacingCallsKeepOneRecord == [][WriteKeepsOneRecord]_vars

\* C31 witness: two calls for the same session and tag both looked the pair
\* up before either wrote; both inserted, and the table holds two records
\* for the pair with no call left in flight.
C31_Witness ==
    /\ ret.op = "write" /\ ~ret.found /\ ret.interleaved
    /\ calls["s1"] = <<>>
    /\ Len(spaced) = 2
    /\ spaced[1].session_id = spaced[2].session_id
    /\ spaced[1].tag = spaced[2].tag

\* ------------------------------------------------------------------------
\* The session's totals (C32..C38)
\* ------------------------------------------------------------------------
\* the calendar day of a clock value
DayOf(t) == t \div DAY

\* the finishes logged so far on the given day
FinishesOn(day) ==
    Cardinality({i \in 1..Len(events) :
                    events[i].event = "case_done" /\ DayOf(events[i].ts) = day})

\* a /finish request: the first of its day adds 1 to the streak and sets the
\* day's case count to 1, a later one leaves the streak and adds 1 to the
\* count; no step lowers the streak
StreakOncePerDay ==
    /\ ret'.op = "finish" =>
          IF FinishesOn(DayOf(now)) = 0
          THEN /\ session'.streak = session.streak + 1
               /\ session'.cases_completed_today = 1
          ELSE /\ session'.streak = session.streak
               /\ session'.cases_completed_today = session.cases_completed_today + 1
    /\ session'.streak >= session.streak

\* C32: the daily streak increases by exactly 1 on the first case finish of a
\* calendar day and is unchanged by every further finish on the same day;
\* cases_completed_today is set to 1 by the first finish of a day and
\* incremented by 1 by each later finish that day; the streak never
\* decreases.
C32_StreakOncePerDay == [][StreakOncePerDay]_vars

\* C32 witness: two finishes on the first day and one on the next: the
\* streak is 2 and the day's count is back at 1.
C32_Witness ==
    /\ ret.op = "finish"
    /\ FinishesOn(0) = 2 /\ FinishesOn(1) = 1
    /\ session.streak = 2 /\ session.cases_completed_today = 1

\* a POST /stage on a session that holds a case looks up the current stage
\* (flow[state["stage_idx"]]) with the index the case has before the request
LooksUpStage == ret'.op = "stage" /\ HasCase

\* C33: whenever the stage endpoint looks up the current stage, the case
\* state's stage index satisfies 0 <= stage_idx < 11; in particular, after
\* the last stage has been submitted and while the case state still exists,
\* a further request to the stage endpoint does not fail with an
\* out-of-range index.
C33_StageIndexInRange ==
    [][LooksUpStage => (State.stage_idx >= 0 /\ State.stage_idx < Len(FLOW))]_vars

\* ------------------------------------------------------------------------
\* Hint runs: a first attempt answered rightly to the end and finished, then
\* a second attempt in which hints are requested on the priority stage, for
\* that stage or for another one, as often as the user likes, and the stage
\* page is reloaded.  The first attempt takes its hints on the opening page,
\* with no XP in the session yet.
\* ------------------------------------------------------------------------
\* GET /stage: the page of the current stage
StageGet ==
    /\ ret' = Response("stage_get",
                       IF ~HasCase THEN "redirect_home"
                       ELSE IF Finished(State) \/ RenderRaises(State) THEN "error"
                       ELSE "page")
    /\ UNCHANGED <<session, spaced, events, now, db_ok, runs, calls, form>>

\* the stage keys a hint is requested for; "history_rank" has no hints
HintKeys == {"priority", "ecg_read", "history_rank"}

\* the stages answered in the attempt that takes hints
HintStages == {"presenting", "priority", "history_rank", "focused_exam", "ecg_read"}

\* the attempt at hand is the first of the run
FirstAttempt == Logged("start_case") = 1

NextHints ==
    \/ (~HasCase /\ Logged("start_case") < MaxAttempts /\ StartCase(<<>>))
    \/ (HasCase /\ ~Finished(State)
        /\ (FirstAttempt \/ Key(State) \in HintStages) /\ RightAnswer)
    \/ \E k \in HintKeys :
         /\ HasCase /\ ~Finished(State)
         /\ IF FirstAttempt THEN State.stage_idx = 0 /\ k = "priority"
                            ELSE Key(State) = "priority"
         /\ StageHint(k)
    \/ (HasCase /\ StageGet)
    \/ (HasCase /\ Finished(State) /\ session.last_run # <<LastRun(State, now)>>
        /\ Feedback)
    \/ (HasCase /\ Finished(State) /\ session.last_run = <<LastRun(State, now)>>
        /\ Finish)

SpecHints == Init /\ [][NextHints]_vars

\* ------------------------------------------------------------------------
\* Hints (C34, C38)
\* ------------------------------------------------------------------------
\* C34: for every stage, the number of hints recorded as used never exceeds
\* the number of hints the stage defines, after any sequence of hint
\* requests for the current or any other stage, so that rendering the
\* stage's hint block never reads past the end of its hint list.
C34_HintsUsedWithinDefined ==
    HasCase =>
       /\ \A k \in DOMAIN HINTS : State.hints_used[k] <= HINTS[k]
       /\ ~Finished(State) => ~RenderRaises(State)

\* ------------------------------------------------------------------------
\* Crediting a finished attempt (C35, C36, C37)
\* ------------------------------------------------------------------------
\* a /finish request that closes a completed attempt whose hints were all
\* charged in full: session XP moves only at hint requests and at /finish,
\* and stays at 0 once the floor has cut a charge, so XP above 0 at /finish
\* means that it stands at the XP of the start minus the hint costs
FinishOfUnflooredRun ==
    /\ ret'.op = "finish"
    /\ HasCase /\ Finished(State)
    /\ session.last_run = <<LastRun(State, now)>>
    /\ session.xp > 0

\* C35: the cost of a hint is charged to session XP exactly once: over a
\* complete run (start, stage submissions with hint requests, feedback,
\* finish) in which the floor at 0 is never hit, session XP after finish
\* equals session XP at start plus the points earned at the stages and the
\* speed bonus, minus the sum of the hint costs.  With the hint costs
\* already taken from session XP when /finish arrives, /finish adds the
\* points of the stages and the speed bonus.
C35_HintChargedOnce ==
    [][FinishOfUnflooredRun => session'.xp = session.xp + Uncapped(State)]_vars

\* the case of the last feedback page had reached the end of its flow: its
\* breakdown holds the line of the last stage
LastRunCompleted ==
    /\ session.last_run # <<>>
    /\ LinesOf(session.last_run[1], "Handoff structure") # <<>>

\* a /finish request that follows the /finish request of a completed case,
\* with nothing in between
SecondFinish ==
    /\ ret.op = "finish" /\ ret'.op = "finish"
    /\ ~HasCase /\ LastRunCompleted

\* C36: finishing is credited at most once per attempt: a second finish
\* request after the same completed case leaves session XP and
\* cases_completed_today unchanged.
C36_FinishCreditedOnce ==
    [][SecondFinish =>
          /\ session'.xp = session.xp
          /\ session'.cases_completed_today = session.cases_completed_today]_vars

\* no case was ever started in the session, or the feedback page was viewed
\* for the case at hand while its index was short of the end of the flow
NoAttemptAtEnd ==
    \/ Logged("start_case") = 0 /\ ~HasCase /\ ~LastRunSet
    \/ /\ HasCase /\ ~Finished(State)
       /\ session.last_run = <<LastRun(State, now)>>

\* C37: session XP, the streak and cases_completed_today change at a finish
\* request only when an attempt has reached the end of its flow: a finish
\* request with no case ever started, or after viewing feedback for a case
\* whose index is short of the end, changes none of them.
C37_FinishNeedsCompletedAttempt ==
    [][(ret'.op = "finish" /\ NoAttemptAtEnd) =>
          /\ session'.xp = session.xp
          /\ session'.streak = session.streak
          /\ session'.cases_completed_today = session.cases_completed_today]_vars

\* the cost of the next hint of a stage that has `used` hints charged
HintCharge(used) == CASE used = 0 -> 2 [] used = 1 -> 3 [] used = 2 -> 5

\* the hint counters of the stages other than k
OtherHints(st, k) == [j \in DOMAIN st.hints_used \ {k} |-> st.hints_used[j]]

\* a hint request: the case keeps its stage index, score, wrong-answer
\* counter, decisions (the safety flag among them) and vitals and the hint
\* counters of the other stages, and the store keeps its records; while
\* fewer than three hints are charged for the named stage, its counter goes
\* up by one, session XP goes down by the cost (not below 0), the earned XP
\* goes down by the cost and the breakdown gains one line; otherwise the
\* session is left as it is
HintFrame ==
    (HasCase /\ ret'.op = "stage" /\ form'.action = "hint") =>
       LET k == form'.key
           st == State
           counted == k \in DOMAIN st.hints_used
       IN  /\ session'.case # <<>>
           /\ State'.stage_idx = st.stage_idx
           /\ State'.score = st.score
           /\ State'.wrong_mcq_count = st.wrong_mcq_count
           /\ State'.decisions = st.decisions
           /\ State'.vitals = st.vitals
           /\ OtherHints(State', k) = OtherHints(st, k)
           /\ spaced' = spaced
           /\ IF counted /\ st.hints_used[k] < 3
              THEN LET cost == HintCharge(st.hints_used[k])
                   IN  /\ State'.hints_used[k] = st.hints_used[k] + 1
                       /\ session'.xp = Max(0, session.xp - cost)
                       /\ State'.xp_earned = st.xp_earned - cost
                       /\ Len(State'.xp_lines) = Len(st.xp_lines) + 1
                       /\ SubSeq(State'.xp_lines, 1, Len(st.xp_lines)) = st.xp_lines
              ELSE session' = session

\* C38: a hint request changes only the hint counter of the named stage,
\* session XP (reduced by the hint's cost, floored at 0), the attempt's
\* earned XP and the breakdown; it leaves the stage index, the score, the
\* wrong-answer counter, the safety flag, the recorded decisions and the
\* vitals unchanged and sends no Scheduler signal; once three hints have
\* been charged for a stage, a further hint request for it changes nothing
\* at all.
C38_HintFrame == [][HintFrame]_vars

\* C38 witness: with XP in the session, three hints have been charged for
\* the priority stage and three for the ECG stage, the last request being
\* one for the ECG stage made from the priority page.
C38_Witness ==
    /\ HasCase /\ ret.op = "stage" /\ form.action = "hint" /\ form.key = "ecg_read"
    /\ Key(State) = "priority"
    /\ State.hints_used["priority"] = 3 /\ State.hints_used["ecg_read"] = 3
    /\ session.xp > 0 /\ State.xp_earned < 0

====
